---- MODULE Spec2Model ----
(***************************************************************************)
(* Traceability tooling of zarfld/MixingStation-API-Client.                *)
(*                                                                         *)
(* Three batch programs are modelled, each as its own specification:       *)
(*   SpecParser   scripts/generators/spec_parser.py  (main: scan, dedup)   *)
(*   SpecIssues   scripts/github-issues-to-traceability-json.py (main)     *)
(*   SpecMarkdown scripts/build-traceability.py (TraceabilityBuilder)      *)
(* SpecMetrics runs either of the two metric calculators.                  *)
(***************************************************************************)
EXTENDS Integers, Sequences, FiniteSets, TLC

VARIABLES
    \* ---- spec_parser.py main() ----
    p_pc,                       \* "scan_md" | "scan_tests" | "dedup" | "done"
    all_items,                  \* list of items, in scan order
    p_idx,                      \* position of the dedup loop in all_items
    seen,                       \* dict id -> sourceType of first occurrence
    dedup,                      \* list of kept items
    duplicate_definition_ids,   \* dict id -> count, as insertion-ordered pairs
    out_items,                  \* 'items' of spec-index.json
    out_duplicateDefinitionIds, \* 'duplicateDefinitionIds' of spec-index.json
    \* ---- github-issues-to-traceability-json.py main() ----
    i_pc,                       \* "fetch" | "fallback" | "types" | "build" | "metrics" | "done"
    store,                      \* the remote issue store: number -> issue
    label_idx,                  \* position in requirement_labels
    all_issues,                 \* list of fetched issue numbers
    seen_numbers,
    title_detection,
    issue_types,                \* dict issue number -> type
    i_idx,                      \* position of the second pass in all_issues
    body_read,                  \* issue.body of the issue the second pass read last
    items,                      \* list of item entries
    forward_links,              \* dict issue number -> list of numbers
    backward_links,             \* dict number -> list of issue numbers
    requirements,               \* list of REQ-F / REQ-NF issue numbers
    requirements_with_adr,
    requirements_with_scenario,
    requirements_with_test,
    requirements_with_any_link,
    i_metrics,                  \* the 'metrics' dict of the output
    \* ---- build-traceability.py TraceabilityBuilder ----
    m_pc,                       \* "scan" | "tests" | "done"
    m_dir,                      \* position of scan_all in the markdown directories
    n_files,                    \* files scanned so far
    artifacts,                  \* self.artifacts: collection -> list of artifacts
    links,                      \* self.links: id -> relation -> list
    m_metrics,                  \* result of calculate_metrics
    \* ---- check-spec-numbering.py analyze_numbering() ----
    n_pc,                       \* "scan" | "done"
    n_scanned,                  \* markdown files scanned so far
    id_locations,               \* dict id -> list of files that contain it
    by_type,                    \* dict type+category key -> set of numbers
    gaps,                       \* dict key -> ascending list of missing numbers
    duplicates,                 \* dict id -> locations, the ids reported as duplicates
    strict,                     \* is '--strict' in argv?
    exit_code,                  \* what main returned, NoExit before
    \* ---- github-traceability-report.py / github-orphan-check.py ----
    o_pc,                       \* "start" | "report" | "report_done" | "check" | "check_done"
    o_store,                    \* the remote issues: number -> title, labels, state, body
    o_issues,                   \* list returned by fetch_all_requirements
    orphans,                    \* the list of orphans the tool prints
    \* ---- spec_parser.py parse_file(), as main calls it ----
    blob_text,                  \* the text parse_file read last, with its path
    blobs_read,                 \* paths of the markdown files main has tried to parse
    warnings,                   \* paths of the 'WARN: failed to parse' messages
    \* ---- the link extractors, each applied to one text ----
    x_pc,                       \* "read" until an extractor has run, then "done"
    x_text,                     \* the text: an issue body or the content of a file
    x_fn,                       \* the extractor that has run, "" before
    x_name,                     \* the id in the name of the scanned file, "" if none
    x_artifacts,                \* what the call appended to self.artifacts
    x_links,                    \* self.links after the call
    x_refs,                     \* the list of numbers the call returned
    x_report,                   \* the dict extract_links returned
    \* ---- audit-issue-labels.py ----
    a_pc,                       \* "validate", "fix", "done"
    a_issue,                    \* the issue as fetched: title, state, labels
    a_remote,                   \* the labels of the issue in the remote store
    fix_auto,                   \* args.fix_auto
    dry_run,                    \* args.dry_run
    all_problems,               \* the LabelIssue list of validate_issue
    fixable,                    \* the auto-fixable problems, in order
    a_idx,                      \* position of the fix loop in fixable
    a_requests,                 \* the label requests sent to the remote store
    fixed_count                 \* number of apply_fixes calls that returned True

parserVars == <<p_pc, all_items, p_idx, seen, dedup, duplicate_definition_ids,
                out_items, out_duplicateDefinitionIds>>
issueVars == <<i_pc, store, label_idx, all_issues, seen_numbers, title_detection,
               issue_types, i_idx,
               body_read, items, forward_links, backward_links, requirements,
               requirements_with_adr, requirements_with_scenario,
               requirements_with_test, requirements_with_any_link, i_metrics>>
mdVars == <<m_pc, m_dir, n_files, artifacts, links, m_metrics>>
numberingVars == <<n_pc, n_scanned, id_locations, by_type, gaps, duplicates, strict,
                   exit_code>>
orphanVars == <<o_pc, o_store, o_issues, orphans>>
scannerVars == <<blob_text, blobs_read, warnings>>
extractVars == <<x_pc, x_text, x_fn, x_name, x_artifacts, x_links, x_refs, x_report>>
auditVars == <<a_pc, a_issue, a_remote, fix_auto, dry_run, all_problems, fixable, a_idx,
                a_requests, fixed_count>>
vars == <<parserVars, issueVars, mdVars, numberingVars, orphanVars, scannerVars,
          extractVars, auditVars>>

----------------------------------------------------------------------------
(* Generic helpers for Python lists, dicts and sets.                       *)

Range(s) == {s[k] : k \in 1..Len(s)}

\* sorted(set(xs)) for a set of integers: the ascending list of its elements.
RECURSIVE SortedList(_)
SortedList(S) ==
    IF S = {} THEN <<>>
    ELSE LET m == CHOOSE x \in S : \A y \in S : x <= y
         IN <<m>> \o SortedList(S \ {m})

\* All sequences over S of length at most n.
SeqsUpTo(S, n) == UNION {[1..k -> S] : k \in 0..n}

\* A Python dict as a function on its key set.
EmptyDict == [k \in {} |-> 0]
DictSet(d, k, v) == [x \in (DOMAIN d) \cup {k} |-> IF x = k THEN v ELSE d[x]]
DictGet(d, k, default) == IF k \in DOMAIN d THEN d[k] ELSE default

\* A dict whose key order is observable (list(d.keys())): insertion-ordered pairs.
OKeys(od) == [n \in 1..Len(od) |-> od[n].k]
OHas(od, key) == \E n \in 1..Len(od) : od[n].k = key
OGet(od, key, default) ==
    IF OHas(od, key) THEN od[CHOOSE n \in 1..Len(od) : od[n].k = key].v ELSE default
OSet(od, key, val) ==
    IF OHas(od, key)
    THEN [n \in 1..Len(od) |-> IF od[n].k = key THEN [k |-> key, v |-> val] ELSE od[n]]
    ELSE Append(od, [k |-> key, v |-> val])

----------------------------------------------------------------------------
(* spec_parser.py                                                          *)

MaxItems == 4

\* Identifiers that ID_PATTERN / REF_PATTERN recognise; TEST-* also matches
\* test_id_pattern of the test-source scan.
SpecIds == {"ADR-003", "TEST-001"}
TestIds == {"TEST-001"}
SourceTypes == {"definition", "reference"}

\* A source path: the position of its directory in the scan order of main
\* (SCAN_DIRS, then CODE_TEST_DIRS: 1 = 02-requirements, 2 = 03-architecture,
\* 3 = the test directories) and the rank of the file name among the names of the
\* model; the lexicographic order of the paths is the order of <<dir, name>>.
FileNames == {1, 2}
MdPaths == {[dir |-> d, name |-> n] : d \in {1, 2}, n \in FileNames}
TestPaths == {[dir |-> 3, name |-> n] : n \in FileNames}

\* One scanned occurrence (build_item): id, sourceType and the file it is from.
Item(id, st, path) == [id |-> id, sourceType |-> st, path |-> path]

\* What parse_file can return for one markdown file: at most one occurrence per
\* identifier, the definitions (front matter, headings) ahead of the references.
ParseResults(path) ==
    {[n \in 1..Len(s) |-> Item(s[n][1], s[n][2], path)] :
        s \in {t \in SeqsUpTo(SpecIds \X SourceTypes, Cardinality(SpecIds)) :
                 /\ Len(t) >= 1
                 /\ \A a, b \in 1..Len(t) : a # b => t[a][1] # t[b][1]
                 /\ \A a, b \in 1..Len(t) :
                        (a < b /\ t[a][2] = "reference") => t[b][2] = "reference"}}

\* base.rglob / tdir.rglob (lines 171, 188) yield the files of a directory in any
\* order, and the directories are visited in the order of the lists: a path can
\* come next when no item is from it yet and no later directory was reached.
CanScanNext(path) ==
    /\ \A k \in 1..Len(all_items) : all_items[k].path # path
    /\ all_items # <<>> => all_items[Len(all_items)].path.dir <= path.dir

\* main, lines 168-179: all_items.extend(parse_file(path)) for the next markdown file.
ScanSpecFile ==
    /\ p_pc = "scan_md"
    /\ \E path \in MdPaths :
          /\ CanScanNext(path)
          /\ \E r \in ParseResults(path) :
                /\ Len(all_items) + Len(r) <= MaxItems
                /\ all_items' = all_items \o r
    /\ UNCHANGED <<p_pc, p_idx, seen, dedup, duplicate_definition_ids,
                   out_items, out_duplicateDefinitionIds>>
    /\ UNCHANGED <<issueVars, mdVars, numberingVars,
                   orphanVars, scannerVars, extractVars, auditVars>>

\* main, lines 184-206: the next test source file that mentions a TEST-* id; the
\* id is appended as a definition.
ScanTestFile ==
    /\ p_pc \in {"scan_md", "scan_tests"}
    /\ Len(all_items) < MaxItems
    /\ \E tid \in TestIds, path \in TestPaths :
          /\ CanScanNext(path)
          /\ all_items' = Append(all_items, Item(tid, "definition", path))
    /\ p_pc' = "scan_tests"
    /\ UNCHANGED <<p_idx, seen, dedup, duplicate_definition_ids,
                   out_items, out_duplicateDefinitionIds>>
    /\ UNCHANGED <<issueVars, mdVars, numberingVars,
                   orphanVars, scannerVars, extractVars, auditVars>>

\* The scan loops are exhausted; main goes on to line 209.
StartDedup ==
    /\ p_pc \in {"scan_md", "scan_tests"}
    /\ p_pc' = "dedup"
    /\ UNCHANGED <<all_items, p_idx, seen, dedup, duplicate_definition_ids,
                   out_items, out_duplicateDefinitionIds>>
    /\ UNCHANGED <<issueVars, mdVars, numberingVars,
                   orphanVars, scannerVars, extractVars, auditVars>>

\* The value line 220 stores for a repeated definition.
DupCount(d, iid) == OGet(d, iid, 1) + 1

\* Line 219: is a repeated occurrence flagged as a duplicate definition?
FlagsDuplicate(source_type, first_type) ==
    source_type = "definition" /\ first_type = "definition"

\* Lines 209-223 run over a whole list: the kept items and the duplicate counts.
RECURSIVE DedupRun(_, _, _, _)
DedupRun(list, seen_types, kept, dups) ==
    IF list = <<>> THEN [dedup |-> kept, duplicate_definition_ids |-> dups]
    ELSE LET item == Head(list)
         IN IF item.id \in DOMAIN seen_types
            THEN DedupRun(Tail(list), seen_types, kept,
                          IF FlagsDuplicate(item.sourceType, seen_types[item.id])
                          THEN OSet(dups, item.id, DupCount(dups, item.id))
                          ELSE dups)
            ELSE DedupRun(Tail(list), DictSet(seen_types, item.id, item.sourceType),
                          Append(kept, item), dups)

\* main, lines 213-223: one iteration of the de-duplication loop.
DedupStep ==
    /\ p_pc = "dedup"
    /\ p_idx <= Len(all_items)
    /\ LET item == all_items[p_idx]
           iid == item.id
           source_type == item.sourceType
       IN IF iid \in DOMAIN seen
          THEN /\ duplicate_definition_ids' =
                     IF FlagsDuplicate(source_type, seen[iid])
                     THEN OSet(duplicate_definition_ids, iid,
                               DupCount(duplicate_definition_ids, iid))
                     ELSE duplicate_definition_ids
               /\ UNCHANGED <<seen, dedup>>
          ELSE /\ seen' = DictSet(seen, iid, source_type)
               /\ dedup' = Append(dedup, item)
               /\ UNCHANGED duplicate_definition_ids
    /\ p_idx' = p_idx + 1
    /\ UNCHANGED <<p_pc, all_items, out_items, out_duplicateDefinitionIds>>
    /\ UNCHANGED <<issueVars, mdVars, numberingVars,
                   orphanVars, scannerVars, extractVars, auditVars>>

\* main, lines 230-237: spec-index.json is written.
WriteIndex ==
    /\ p_pc = "dedup"
    /\ p_idx > Len(all_items)
    /\ out_items' = dedup
    /\ out_duplicateDefinitionIds' = OKeys(duplicate_definition_ids)
    /\ p_pc' = "done"
    /\ UNCHANGED <<all_items, p_idx, seen, dedup, duplicate_definition_ids>>
    /\ UNCHANGED <<issueVars, mdVars, numberingVars,
                   orphanVars, scannerVars, extractVars, auditVars>>

NextParser == ScanSpecFile \/ ScanTestFile \/ StartDedup \/ DedupStep \/ WriteIndex

----------------------------------------------------------------------------
(* github-issues-to-traceability-json.py                                   *)

MaxBody == 2

\* The issue numbers of the remote store, and the numbers a body can mention:
\* those and one number that is no issue of the store.
IssueNumbers == {1, 2}
RefNumbers == IssueNumbers \cup {3}

requirement_labels ==
    << "type:stakeholder-requirement", "type:requirement:functional",
       "type:requirement:non-functional", "type:architecture:decision",
       "type:architecture:component", "type:architecture:quality-scenario",
       "type:test-case", "type:test-plan",
       "phase:01-stakeholder-requirements", "phase:02-requirements",
       "phase:03-architecture", "phase:07-verification-validation" >>

\* The text the title regex (line 192) matches at the start of a title, as it is
\* written there; "" when the title starts with none of the prefixes.
TitlePrefixes == {"StR", "REQ-F", "req-nf", "ADR", "ARC-C", "QA-SC", "TEST", ""}

\* str.upper() on the matched prefixes.
Upper(t) ==
    CASE t = "StR" -> "STR"
      [] t = "req-nf" -> "REQ-NF"
      [] OTHER -> t

\* label_map, lines 197-217 (the entries for the labels of the model).
label_map ==
    [l \in {"type:stakeholder-requirement", "type:requirement:functional",
            "type:requirement:non-functional", "type:architecture:decision",
            "type:architecture:component", "type:architecture:quality-scenario",
            "type:test-case", "type:test-plan"} |->
        CASE l = "type:stakeholder-requirement" -> "StR"
          [] l = "type:requirement:functional" -> "REQ-F"
          [] l = "type:requirement:non-functional" -> "REQ-NF"
          [] l = "type:architecture:decision" -> "ADR"
          [] l = "type:architecture:component" -> "ARC-C"
          [] l = "type:architecture:quality-scenario" -> "QA-SC"
          [] l = "type:test-case" -> "TEST"
          [] l = "type:test-plan" -> "TEST"]

\* Which of the words lines 226-238 look for occur in label.lower().
LabelWords(l) ==
    CASE l = "phase:01-stakeholder-requirements" -> {"stakeholder"}
      [] l = "type:stakeholder-requirement" -> {"stakeholder"}
      [] l = "type:requirement:functional" -> {"functional"}
      [] l = "type:requirement:non-functional" -> {"functional", "non", "non-functional"}
      [] l = "type:architecture:decision" -> {"decision"}
      [] l = "type:architecture:component" -> {"component"}
      [] l = "type:architecture:quality-scenario" -> {"quality", "scenario"}
      [] l = "type:test-case" -> {"test"}
      [] l = "type:test-plan" -> {"test"}
      [] OTHER -> {}

\* Lines 220-239: what one label decides; "" when the loop goes on to the next.
LabelType(l) ==
    IF l \in DOMAIN label_map THEN label_map[l]
    ELSE LET w == LabelWords(l)
         IN CASE "stakeholder" \in w -> "StR"
              [] "functional" \in w /\ "non" \notin w -> "REQ-F"
              [] "non-functional" \in w -> "REQ-NF"
              [] "decision" \in w -> "ADR"
              [] "component" \in w -> "ARC-C"
              [] "quality" \in w \/ "scenario" \in w -> "QA-SC"
              [] "test" \in w -> "TEST"
              [] OTHER -> ""

RECURSIVE FirstLabelType(_)
FirstLabelType(labels) ==
    IF labels = <<>> THEN "UNKNOWN"
    ELSE IF LabelType(Head(labels)) # "" THEN LabelType(Head(labels))
    ELSE FirstLabelType(Tail(labels))

\* get_requirement_type(title, labels); the title is given by its matched prefix.
get_requirement_type(title, labels) ==
    IF title # "" THEN Upper(title) ELSE FirstLabelType(labels)

\* The issues the store can hold: title (by prefix) and label list.
IssueProfiles ==
    { [title |-> "REQ-F",  labels |-> <<"type:requirement:functional", "phase:02-requirements">>],
      [title |-> "req-nf", labels |-> <<"type:requirement:non-functional">>],
      [title |-> "",       labels |-> <<"phase:02-requirements", "type:requirement:functional">>],
      [title |-> "ADR",    labels |-> <<"type:architecture:decision">>],
      [title |-> "ARC-C",  labels |-> <<"phase:03-architecture">>],
      [title |-> "QA-SC",  labels |-> <<"type:architecture:quality-scenario">>],
      [title |-> "TEST",   labels |-> <<"type:test-case">>],
      [title |-> "StR",    labels |-> <<"phase:01-stakeholder-requirements">>],
      [title |-> "",       labels |-> <<"phase:03-architecture">>],
      [title |-> "REQ-F",  labels |-> <<>>] }

\* A body is a sequence of tokens: n >= 1 for a '#n' token, PlainText for any
\* other text.
PlainText == 0
BodyTokens == RefNumbers \cup {PlainText}
IsRefToken(t) == t # PlainText

\* re.findall(r'#(\d+)', body), line 47: the numbers of the #N tokens, in text order.
FindAllRefs(body) == SelectSeq(body, IsRefToken)

\* Line 47 alone: the numbers as found, neither made distinct nor sorted.
extract_issue_links_TextOrder(body) == FindAllRefs(body)

\* extract_issue_links(body)['traces_to'], lines 42-50.
extract_issue_links(body) ==
    IF body = <<>> THEN <<>> ELSE SortedList(Range(FindAllRefs(body)))

\* The issues of the store that carry a label, and the orders the API may
\* return them in.
IssuesWithLabel(label) ==
    {n \in DOMAIN store : label \in Range(store[n].labels)}
Orderings(S) ==
    {q \in [1..Cardinality(S) -> S] : Range(q) = S}

\* AppendUnseen without the seen_numbers test of lines 286 / 299.
AppendUnseen_NoSeenCheck(list, seenset, fetched) ==
    [list |-> list \o fetched, seen |-> seenset \cup Range(fetched)]

\* Lines 285-288 / 297-301: append the issues not seen yet.
RECURSIVE AppendUnseen(_, _, _)
AppendUnseen(list, seenset, fetched) ==
    IF fetched = <<>> THEN [list |-> list, seen |-> seenset]
    ELSE IF Head(fetched) \notin seenset
         THEN AppendUnseen(Append(list, Head(fetched)), seenset \cup {Head(fetched)},
                           Tail(fetched))
         ELSE AppendUnseen(list, seenset, Tail(fetched))

issuePassVars == <<issue_types, i_idx, body_read, items, forward_links, backward_links,
                   requirements, requirements_with_adr, requirements_with_scenario,
                   requirements_with_test, requirements_with_any_link, i_metrics>>

\* Lines 282-290: the fetch of one label; the request may fail, which is only
\* reported.
FetchLabel ==
    /\ i_pc = "fetch"
    /\ label_idx <= Len(requirement_labels)
    /\ \/ \E fetched \in Orderings(IssuesWithLabel(requirement_labels[label_idx])) :
            LET r == AppendUnseen(all_issues, seen_numbers, fetched)
            IN /\ all_issues' = r.list
               /\ seen_numbers' = r.seen
       \/ UNCHANGED <<all_issues, seen_numbers>>
    /\ label_idx' = label_idx + 1
    /\ UNCHANGED <<i_pc, store, title_detection>>
    /\ UNCHANGED issuePassVars
    /\ UNCHANGED <<parserVars, mdVars, numberingVars,
                   orphanVars, scannerVars, extractVars, auditVars>>

\* RunsFallback when line 293 does not test all_issues.
RunsFallback_Always(list) == TRUE

\* Line 293, `if not all_issues:`.
RunsFallback(list) == list = <<>>

\* Lines 293-303: after the last label; the title-based fetch when nothing was
\* found. title_detection records that the fetch of all issues was tried (the
\* warning of line 294); the request may fail, which is only reported.
FetchFallback ==
    /\ i_pc = "fetch"
    /\ label_idx > Len(requirement_labels)
    /\ title_detection' = RunsFallback(all_issues)
    /\ IF RunsFallback(all_issues)
       THEN \/ \E fetched \in Orderings({n \in DOMAIN store : store[n].title # ""}) :
                 LET r == AppendUnseen(all_issues, seen_numbers, fetched)
                 IN /\ all_issues' = r.list
                    /\ seen_numbers' = r.seen
            \/ UNCHANGED <<all_issues, seen_numbers>>
       ELSE UNCHANGED <<all_issues, seen_numbers>>
    /\ i_pc' = "types"
    /\ UNCHANGED <<store, label_idx>>
    /\ UNCHANGED issuePassVars
    /\ UNCHANGED <<parserVars, mdVars, numberingVars,
                   orphanVars, scannerVars, extractVars, auditVars>>

\* Lines 320-325: the first pass, issue_types for every fetched issue.
CollectTypes ==
    /\ i_pc = "types"
    /\ issue_types' = [n \in Range(all_issues) |->
                          get_requirement_type(store[n].title, store[n].labels)]
    /\ i_pc' = "build"
    /\ UNCHANGED <<store, label_idx, all_issues, seen_numbers, title_detection,
                   i_idx, body_read, items,
                   forward_links, backward_links, requirements, requirements_with_adr,
                   requirements_with_scenario, requirements_with_test,
                   requirements_with_any_link, i_metrics>>
    /\ UNCHANGED <<parserVars, mdVars, numberingVars,
                   orphanVars, scannerVars, extractVars, auditVars>>

TypeOf(ref) == DictGet(issue_types, ref, "UNKNOWN")
IsRequirementType(t) == t \in {"REQ-F", "REQ-NF"}

\* Lines 359-360: backward_links[ref].append(issue_id) for every reference.
RECURSIVE AppendBackward(_, _, _)
AppendBackward(bl, refs, issue_id) ==
    IF refs = <<>> THEN bl
    ELSE AppendBackward(
            DictSet(bl, Head(refs), Append(DictGet(bl, Head(refs), <<>>), issue_id)),
            Tail(refs), issue_id)

\* Lines 374-386: the linked issues of a requirement whose type is in types.
LinksToType(linked, types) == \E r \in linked : TypeOf(r) \in types

\* LinkedRequirements when line 400 does not test the type of the target.
LinkedRequirements_AnyType(linked) == linked

\* Lines 395-406: the requirements an artifact of another type links to.
LinkedRequirements(linked) == {r \in linked : IsRequirementType(TypeOf(r))}

\* CountsReverse when the reverse linkage of lines 388-406 is left out.
CountsReverse_Never(req_type, types) == FALSE

\* Lines 401-406: is the reverse linkage of an artifact of type req_type counted
\* for the metric whose artifact types are `types`?
CountsReverse(req_type, types) == req_type \in types

\* Lines 327-406: one iteration of the second pass.
BuildItem ==
    /\ i_pc = "build"
    /\ i_idx <= Len(all_issues)
    /\ \E body \in SeqsUpTo(BodyTokens, MaxBody) :
        LET n == all_issues[i_idx]
            req_type == get_requirement_type(store[n].title, store[n].labels)
            traces_to == extract_issue_links(body)
            references == SortedList(Range(traces_to))
            item == [id |-> n, type |-> req_type, references |-> references,
                     link_details |-> IF traces_to # <<>>
                                      THEN [traces_to |-> traces_to] ELSE EmptyDict]
            all_linked_issues == Range(traces_to)
            isReq == IsRequirementType(req_type)
            isOther == ~isReq /\ req_type \in {"ADR", "ARC-C", "QA-SC", "TEST"}
            back == IF isOther THEN LinkedRequirements(all_linked_issues) ELSE {}
        IN /\ body_read' = body
           /\ items' = Append(items, item)
           /\ forward_links' = DictSet(forward_links, n, references)
           /\ backward_links' = AppendBackward(backward_links, references, n)
           /\ requirements' = IF isReq THEN Append(requirements, n) ELSE requirements
           /\ requirements_with_any_link' =
                 IF isReq /\ references # <<>>
                 THEN requirements_with_any_link \cup {n}
                 ELSE requirements_with_any_link
           /\ requirements_with_adr' =
                 requirements_with_adr
                 \cup (IF isReq /\ LinksToType(all_linked_issues, {"ADR", "ARC-C"})
                       THEN {n} ELSE {})
                 \cup (IF CountsReverse(req_type, {"ADR", "ARC-C"}) THEN back ELSE {})
           /\ requirements_with_scenario' =
                 requirements_with_scenario
                 \cup (IF isReq /\ LinksToType(all_linked_issues, {"QA-SC"})
                       THEN {n} ELSE {})
                 \cup (IF CountsReverse(req_type, {"QA-SC"}) THEN back ELSE {})
           /\ requirements_with_test' =
                 requirements_with_test
                 \cup (IF isReq /\ LinksToType(all_linked_issues, {"TEST"})
                       THEN {n} ELSE {})
                 \cup (IF CountsReverse(req_type, {"TEST"}) THEN back ELSE {})
    /\ i_idx' = i_idx + 1
    /\ UNCHANGED <<i_pc, store, label_idx, all_issues, seen_numbers, title_detection,
                   issue_types, i_metrics>>
    /\ UNCHANGED <<parserVars, mdVars, numberingVars,
                   orphanVars, scannerVars, extractVars, auditVars>>

\* A percentage in hundredths of a percent (the script divides floats and does
\* not round; values are kept to this resolution).
IssuePct(linked, total) == (linked * 10000) \div total

IssueMetric(linked, total) ==
    [coverage_pct |-> IssuePct(linked, total), total |-> total, linked |-> linked]

\* Lines 409-433: the metrics dict.
IssueMetrics(total_reqs) ==
    LET requirement ==
            [coverage_pct |-> IF total_reqs # 0
                              THEN IssuePct(Cardinality(requirements_with_any_link), total_reqs)
                              ELSE 0,
             total |-> total_reqs,
             linked |-> Cardinality(requirements_with_any_link)]
    IN IF total_reqs > 0
       THEN [m \in {"requirement", "requirement_to_ADR", "requirement_to_scenario",
                    "requirement_to_test"} |->
                CASE m = "requirement" -> requirement
                  [] m = "requirement_to_ADR" ->
                        IssueMetric(Cardinality(requirements_with_adr), total_reqs)
                  [] m = "requirement_to_scenario" ->
                        IssueMetric(Cardinality(requirements_with_scenario), total_reqs)
                  [] m = "requirement_to_test" ->
                        IssueMetric(Cardinality(requirements_with_test), total_reqs)]
       ELSE [m \in {"requirement"} |-> requirement]

\* Lines 408-448: the metrics are computed and traceability.json is written.
WriteTraceability ==
    /\ i_pc = "build"
    /\ i_idx > Len(all_issues)
    /\ i_metrics' = IssueMetrics(Len(requirements))
    /\ i_pc' = "done"
    /\ UNCHANGED <<store, label_idx, all_issues, seen_numbers, title_detection,
                   issue_types, i_idx,
                   body_read, items, forward_links, backward_links, requirements,
                   requirements_with_adr, requirements_with_scenario,
                   requirements_with_test, requirements_with_any_link>>
    /\ UNCHANGED <<parserVars, mdVars, numberingVars,
                   orphanVars, scannerVars, extractVars, auditVars>>

NextIssues == FetchLabel \/ FetchFallback \/ CollectTypes \/ BuildItem \/ WriteTraceability

----------------------------------------------------------------------------
(* build-traceability.py                                                   *)

MaxMatches == 2

\* The files scan_all finds, the issue numbers a file can mention and the
\* 3-digit numbers of artifact ids (one id per artifact type: two files of one
\* directory carry the same id, files of different directories different ids).
RepoFiles == {"first", "second"}
MdRefs == {1, 2}
MdIdNumbers == {1}

\* scan_all, lines 166-194: the markdown directories in the order they are
\* scanned, with the artifact type of each.
MdDirs == <<"StR", "REQ-F", "REQ-NF", "ADR", "ARC-C">>

MdRelations == <<"traces_to", "verified_by", "implements", "satisfies", "refined_by">>

\* Lines 115-124 and 142: the collection an artifact type is stored in.
Collection(artifact_type) ==
    CASE artifact_type = "StR" -> "stakeholder_requirements"
      [] artifact_type = "REQ-F" -> "functional_requirements"
      [] artifact_type = "REQ-NF" -> "non_functional_requirements"
      [] artifact_type = "ADR" -> "architecture_decisions"
      [] artifact_type = "ARC-C" -> "architecture_components"
      [] artifact_type = "TEST" -> "test_cases"

Collections == {"stakeholder_requirements", "functional_requirements",
                "non_functional_requirements", "architecture_decisions",
                "architecture_components", "test_cases", "implementations"}

\* A file's text is modelled by its relation-keyword matches in text order: each
\* is a keyword of one relation followed by '#<num>'.
MdContents == SeqsUpTo(Range(MdRelations) \X MdRefs, MaxMatches)

\* PATTERN.finditer(content) for one relation: the issue numbers, in text order.
RECURSIVE FindIter(_, _)
FindIter(content, rel) ==
    IF content = <<>> THEN <<>>
    ELSE (IF Head(content)[1] = rel THEN <<Head(content)[2]>> ELSE <<>>)
         \o FindIter(Tail(content), rel)

\* Lines 110-112: sorted(list(set(artifact[key]))).
Deduplicate(list) == SortedList(Range(list))

\* Lines 73-112: the artifact built from a file.
MdArtifact(artifact_id, artifact_type, content) ==
    [id |-> artifact_id, type |-> artifact_type,
     traces_to |-> Deduplicate(FindIter(content, "traces_to")),
     verified_by |-> Deduplicate(FindIter(content, "verified_by")),
     implements |-> Deduplicate(FindIter(content, "implements")),
     satisfies |-> Deduplicate(FindIter(content, "satisfies")),
     refined_by |-> Deduplicate(FindIter(content, "refined_by"))]

\* self.links[artifact_id][rel].append(issue_num) for every match of rel
\* (lines 85-108); a defaultdict entry exists once something was appended.
LinksAppend(lk, artifact_id, rel, nums) ==
    IF nums = <<>> THEN lk
    ELSE LET inner == DictGet(lk, artifact_id, EmptyDict)
         IN DictSet(lk, artifact_id,
                    DictSet(inner, rel, DictGet(inner, rel, <<>>) \o nums))

RECURSIVE LinksAppendAll(_, _, _, _)
LinksAppendAll(lk, artifact_id, content, rels) ==
    IF rels = <<>> THEN lk
    ELSE LinksAppendAll(
            LinksAppend(lk, artifact_id, Head(rels), FindIter(content, Head(rels))),
            artifact_id, content, Tail(rels))

\* scan_all, lines 166-194, reaches the next file in which the id pattern matches:
\* a file of the current directory or of a later one; scan_markdown (lines
\* 53-124) is run on it.
scan_markdown ==
    /\ m_pc = "scan"
    /\ n_files < Cardinality(RepoFiles)
    /\ \E d \in m_dir..Len(MdDirs), num \in MdIdNumbers, content \in MdContents :
        LET artifact_type == MdDirs[d]
            artifact_id == <<artifact_type, num>>
            artifact == MdArtifact(artifact_id, artifact_type, content)
            coll == Collection(artifact_type)
        IN /\ links' = LinksAppendAll(links, artifact_id, content, MdRelations)
           /\ artifacts' = [artifacts EXCEPT ![coll] = Append(@, artifact)]
           /\ m_dir' = d
    /\ n_files' = n_files + 1
    /\ UNCHANGED <<m_pc, m_metrics>>
    /\ UNCHANGED <<parserVars, issueVars, numberingVars,
                   orphanVars, scannerVars, extractVars, auditVars>>

\* scan_test_file, lines 126-142: one TEST artifact per matching comment of the
\* next test file; a file is modelled by the issue numbers of its comments.
scan_test_file ==
    /\ m_pc \in {"scan", "tests"}
    /\ n_files < Cardinality(RepoFiles)
    /\ \E stem \in MdIdNumbers, comments \in SeqsUpTo(MdRefs, MaxMatches) :
          artifacts' = [artifacts EXCEPT !["test_cases"] =
                           @ \o [k \in 1..Len(comments) |->
                                   [id |-> <<"TEST", stem>>, type |-> "TEST",
                                    verifies |-> <<comments[k]>>]]]
    /\ n_files' = n_files + 1
    /\ m_pc' = "tests"
    /\ UNCHANGED <<m_dir, links, m_metrics>>
    /\ UNCHANGED <<parserVars, issueVars, numberingVars,
                   orphanVars, scannerVars, extractVars, auditVars>>

\* round((counted / total) * 100, 2), in hundredths of a percent (ties to even).
MdPct(counted, total) ==
    LET q == (counted * 10000) \div total
        r == (counted * 10000) % total
    IN IF 2 * r > total THEN q + 1
       ELSE IF 2 * r = total THEN q + (q % 2)
       ELSE q

\* has_link without the last of the five relation lists.
has_link_NoRefinedBy(req) ==
    \/ Len(req.traces_to) > 0
    \/ Len(req.verified_by) > 0
    \/ Len(req.implements) > 0
    \/ Len(req.satisfies) > 0

\* Lines 245-251.
has_link(req) ==
    \/ Len(req.traces_to) > 0
    \/ Len(req.verified_by) > 0
    \/ Len(req.implements) > 0
    \/ Len(req.satisfies) > 0
    \/ Len(req.refined_by) > 0

\* Line 256.
has_adr(req) == Len(req.implements) > 0 \/ Len(req.satisfies) > 0

\* Line 261.
has_scenario(req) == Len(req.implements) > 0

\* Line 265.
has_test(req) == Len(req.verified_by) > 0

\* Number of positions of list whose element satisfies the test of one metric.
RECURSIVE CountLinked(_, _)
CountLinked(list, metric) ==
    IF list = <<>> THEN 0
    ELSE (IF CASE metric = "requirement" -> has_link(Head(list))
               [] metric = "requirement_to_ADR" -> has_adr(Head(list))
               [] metric = "requirement_to_scenario" -> has_scenario(Head(list))
               [] metric = "requirement_to_test" -> has_test(Head(list))
          THEN 1 ELSE 0) + CountLinked(Tail(list), metric)

MetricNames == {"requirement", "requirement_to_ADR", "requirement_to_scenario",
                "requirement_to_test"}

\* Lines 239-242.
all_reqs == artifacts["functional_requirements"] \o artifacts["non_functional_requirements"]

\* Lines 220-223.
total_requirements ==
    Len(artifacts["functional_requirements"]) + Len(artifacts["non_functional_requirements"])

\* calculate_metrics, lines 218-281.
MdMetrics ==
    IF total_requirements = 0
    THEN [m \in MetricNames |-> [coverage_pct |-> 0]]
    ELSE [m \in MetricNames |->
            [coverage_pct |-> MdPct(CountLinked(all_reqs, m), total_requirements)]]

\* scan_all is over; build() calls calculate_metrics (line 285).
calculate_metrics ==
    /\ m_pc \in {"scan", "tests"}
    /\ m_metrics' = MdMetrics
    /\ m_pc' = "done"
    /\ UNCHANGED <<m_dir, n_files, artifacts, links>>
    /\ UNCHANGED <<parserVars, issueVars, numberingVars,
                   orphanVars, scannerVars, extractVars, auditVars>>

NextMarkdown == scan_markdown \/ scan_test_file \/ calculate_metrics

----------------------------------------------------------------------------
(* check-spec-numbering.py                                                 *)

MaxFound == 4

\* The 3-digit number texts of the identifiers, and int() on them.
NumberTexts == {"001", "002", "003", "004"}
IntOf(text) ==
    CASE text = "001" -> 1
      [] text = "002" -> 2
      [] text = "003" -> 3
      [] text = "004" -> 4

\* The identifiers ID_PATTERNS (lines 24-28) match, by their named groups.
NumberedId(prefix, category, type, num) ==
    [prefix |-> prefix, category |-> category, type |-> type, num |-> num]
NumberedIds ==
    {NumberedId("REQ", "", "F", n) : n \in NumberTexts}
    \cup {NumberedId("ADR", "AUTH-", "", n) : n \in {"001", "003"}}
    \cup {NumberedId("REQ", "AUTH-", "F", "003"), NumberedId("REQ", "", "NF", "003"),
          NumberedId("StR", "", "", "003")}

\* NumberingKey with the category left out of the key.
NumberingKey_NoCategory(id) == <<id.prefix, "", id.type>>

\* Lines 83-106: the key f"StR-{category}", f"REQ-{category}{req_type}" or
\* f"ADR-{category}" of an identifier, as the parts it is concatenated from.
NumberingKey(id) ==
    CASE id.prefix = "StR" -> <<"StR", id.category, "">>
      [] id.prefix = "REQ" -> <<"REQ", id.category, id.type>>
      [] id.prefix = "ADR" -> <<"ADR", id.category, "">>

\* Lines 72-73: id_locations[id_str].append(md_file) for the ids of one file.
RECURSIVE AppendLocations(_, _, _)
AppendLocations(locs, ids, md_file) ==
    IF ids = <<>> THEN locs
    ELSE AppendLocations(
            DictSet(locs, Head(ids), Append(DictGet(locs, Head(ids), <<>>), md_file)),
            Tail(ids), md_file)

\* The number of id occurrences recorded in id_locations.
RECURSIVE TotalLocations(_)
TotalLocations(locs) ==
    IF DOMAIN locs = {} THEN 0
    ELSE LET id == CHOOSE x \in DOMAIN locs : TRUE
         IN Len(locs[id]) + TotalLocations([x \in DOMAIN locs \ {id} |-> locs[x]])

\* Lines 65-73: the next markdown file in which extract_ids_from_file finds ids.
ScanNumberedFile ==
    /\ n_pc = "scan"
    /\ \E ids \in SeqsUpTo(NumberedIds, 2) \ {<<>>} :
          /\ Len(ids) + TotalLocations(id_locations) <= MaxFound
          /\ id_locations' = AppendLocations(id_locations, ids, n_scanned + 1)
    /\ n_scanned' = n_scanned + 1
    /\ UNCHANGED <<n_pc, by_type, gaps, duplicates, strict, exit_code>>
    /\ UNCHANGED <<parserVars, issueVars, mdVars,
                   orphanVars, scannerVars, extractVars, auditVars>>

\* Lines 79-106: by_type[key].add(num) for every identifier found.
GroupByType(found) ==
    [key \in {NumberingKey(id) : id \in found} |->
        {IntOf(id.num) : id \in {x \in found : NumberingKey(x) = key}}]

\* Lines 114-119: the numbers of the expected range that were not observed.
Missing(numbers) ==
    LET sorted_nums == SortedList(numbers)
        min_num == sorted_nums[1]
        max_num == sorted_nums[Len(sorted_nums)]
        expected == min_num..max_num
    IN expected \ numbers

\* Lines 109-122: gaps[key] = sorted(missing) for the keys with missing numbers.
FindGaps(groups) ==
    [key \in {k \in DOMAIN groups : Missing(groups[k]) # {}} |->
        SortedList(Missing(groups[key]))]

\* Line 76: duplicates = {id_: locs for id_, locs in id_locations.items() if len(locs) > 1}.
FindDuplicates(locs) ==
    [id \in {x \in DOMAIN locs : Len(locs[x]) > 1} |-> locs[id]]

\* Lines 75-129: the scan is over; the duplicates are taken, the identifiers are
\* grouped and the gaps found.
AnalyzeNumbering ==
    /\ n_pc = "scan"
    /\ duplicates' = FindDuplicates(id_locations)
    /\ by_type' = GroupByType(DOMAIN id_locations)
    /\ gaps' = FindGaps(GroupByType(DOMAIN id_locations))
    /\ n_pc' = "done"
    /\ UNCHANGED <<n_scanned, id_locations, strict, exit_code>>
    /\ UNCHANGED <<parserVars, issueVars, mdVars,
                   orphanVars, scannerVars, extractVars, auditVars>>

\* exit_code before main has returned.
NoExit == -1

\* print_report without the issues_found flag of line 150.
print_report_Passed(dups) == 0

\* print_report, lines 130-198: the exit code it returns.
print_report(dups) == IF DOMAIN dups # {} THEN 1 ELSE 0

\* main, lines 201-213: the report is printed and the exit code returned.
ReportNumbering ==
    /\ n_pc = "done"
    /\ exit_code' = IF strict /\ DOMAIN gaps # {} THEN 1 ELSE print_report(duplicates)
    /\ n_pc' = "exit"
    /\ UNCHANGED <<n_scanned, id_locations, by_type, gaps, duplicates, strict>>
    /\ UNCHANGED <<parserVars, issueVars, mdVars,
                   orphanVars, scannerVars, extractVars, auditVars>>

NextNumbering == ScanNumberedFile \/ AnalyzeNumbering \/ ReportNumbering

----------------------------------------------------------------------------
(* Text of issue bodies and markdown files, as the regular expressions of  *)
(* the link extractors see it: a sequence of tokens.                       *)

\* Relation keyword, e.g. 'Traces to': its relation, its letter case ("Title" for
\* 'Traces to', "lower" for 'traces to', "UPPER" for 'TRACES TO'), whether it is
\* wrapped in **...** and whether a colon follows it.
Keyword(rel, letter_case, bold, colon) ==
    [kind |-> "keyword", rel |-> rel, letter_case |-> letter_case, bold |-> bold,
     colon |-> colon, digits |-> "", id |-> ""]
\* '#' followed by digits.
RefToken(digits) ==
    [kind |-> "ref", rel |-> "", letter_case |-> "", bold |-> FALSE, colon |-> FALSE,
     digits |-> digits, id |-> ""]
\* A further '#' token of a comma-separated list: ', #' followed by digits.
ListRef(digits) ==
    [kind |-> "list_ref", rel |-> "", letter_case |-> "", bold |-> FALSE, colon |-> FALSE,
     digits |-> digits, id |-> ""]
\* Does the token hold '#<digits>'?
HasRef(tok) == tok.kind \in {"ref", "list_ref"}
\* Other kinds: "text" (words without '#', keyword or identifier), "newline",
\* "filler" (500 characters of such words), "heading_id" (a line '## <id>: title'),
\* "mention_id" (an identifier inside a sentence), "comment" ('// Verifies:').
Other(kind, id) ==
    [kind |-> kind, rel |-> "", letter_case |-> "", bold |-> FALSE, colon |-> FALSE,
     digits |-> "", id |-> id]
Words == Other("text", "")
Newline == Other("newline", "")

\* int() on the digits of a '#' token.
RefNumber(tok) ==
    CASE tok.digits = "5" -> 5
      [] tok.digits = "05" -> 5
      [] tok.digits = "7" -> 7

\* The first position from i on that does not hold whitespace (\s*).
RECURSIVE SkipSpace(_, _)
SkipSpace(text, i) ==
    IF i <= Len(text) /\ text[i].kind = "newline" THEN SkipSpace(text, i + 1) ELSE i

\* r'[Tt]races?\s+to' and its like (report lines 142-146, orphan check line 94):
\* only the first letter may be of either case, and the keyword is directly
\* followed by ':?\s*#'.
PlainKeywordMatches(tok, rel) ==
    /\ tok.kind = "keyword"
    /\ tok.rel = rel
    /\ tok.letter_case \in {"Title", "lower"}
    /\ ~tok.bold

\* re.findall(r'[Tt]races?\s+to:?\s*#(\d+)', body) for one relation, from position i.
RECURSIVE PlainFindAll(_, _, _)
PlainFindAll(text, rel, i) ==
    IF i > Len(text) THEN <<>>
    ELSE IF PlainKeywordMatches(text[i], rel)
         THEN LET j == SkipSpace(text, i + 1)
              IN IF j <= Len(text) /\ text[j].kind = "ref"
                 THEN <<RefNumber(text[j])>> \o PlainFindAll(text, rel, j + 1)
                 ELSE PlainFindAll(text, rel, i + 1)
         ELSE PlainFindAll(text, rel, i + 1)

----------------------------------------------------------------------------
(* github-traceability-report.py and github-orphan-check.py                *)

\* REQUIREMENT_LABELS of github-traceability-report.py (lines 43-63) and of
\* github-orphan-check.py (lines 35-42).
REPORT_REQUIREMENT_LABELS ==
    {"type:stakeholder-requirement", "type:requirement:functional",
     "type:requirement:non-functional", "type:architecture:decision",
     "type:architecture:component", "type:architecture:quality-scenario",
     "type:test-plan", "type:test-case",
     "phase:01-stakeholder-requirements", "phase:02-requirements",
     "phase:03-architecture", "phase:04-design", "phase:05-implementation",
     "phase:06-integration", "phase:07-verification-validation",
     "phase:08-transition", "phase:09-operation-maintenance"}
ORPHAN_REQUIREMENT_LABELS ==
    {"functional-requirement", "non-functional", "architecture-decision",
     "architecture-component", "quality-scenario", "test-case"}

\* label_map of the report's get_requirement_type (lines 180-196); "" for a label
\* that is no key of it.
ReportLabelType(l) ==
    CASE l = "type:stakeholder-requirement" -> "StR"
      [] l = "type:requirement:functional" -> "REQ-F"
      [] l = "type:requirement:non-functional" -> "REQ-NF"
      [] l = "type:architecture:decision" -> "ADR"
      [] l = "type:architecture:component" -> "ARC-C"
      [] l = "type:architecture:quality-scenario" -> "QA-SC"
      [] l = "type:test-case" -> "TEST"
      [] l = "type:test-plan" -> "TEST-PLAN"
      [] l = "phase:01-stakeholder-requirements" -> "StR"
      [] l = "phase:02-requirements" -> "REQ"
      [] l = "phase:03-architecture" -> "ARCH"
      [] l = "phase:04-design" -> "DESIGN"
      [] l = "phase:07-verification-validation" -> "TEST"
      [] OTHER -> ""

RECURSIVE ReportFirstLabelType(_)
ReportFirstLabelType(labels) ==
    IF labels = <<>> THEN "UNKNOWN"
    ELSE IF ReportLabelType(Head(labels)) # "" THEN ReportLabelType(Head(labels))
    ELSE ReportFirstLabelType(Tail(labels))

\* get_requirement_type of the report (lines 156-202); the title is given by the
\* prefix the regex of line 171 matches ("" for none), returned as written.
report_get_requirement_type(title, labels) ==
    IF title # "" THEN title ELSE ReportFirstLabelType(labels)

\* extract_links (report, lines 116-154), the relations of the model.
extract_links(issue_body) ==
    IF issue_body = <<>>
    THEN [traces_to |-> <<>>, verified_by |-> <<>>]
    ELSE [traces_to |-> PlainFindAll(issue_body, "traces_to", 1),
          verified_by |-> PlainFindAll(issue_body, "verified_by", 1)]

\* extract_parent_links (orphan check, lines 89-95).
extract_parent_links(issue_body) ==
    IF issue_body = <<>> THEN <<>> ELSE PlainFindAll(issue_body, "traces_to", 1)

\* The issues of the remote store: title (by its prefix), labels and state.
OrphanProfiles ==
    { [title |-> "REQ-F", labels |-> <<"type:requirement:functional">>, state |-> "open"],
      [title |-> "REQ-F", labels |-> <<"functional-requirement">>, state |-> "open"],
      [title |-> "StR", labels |-> <<"type:stakeholder-requirement", "test-case">>,
       state |-> "open"],
      [title |-> "", labels |-> <<"phase:01-stakeholder-requirements">>, state |-> "open"],
      [title |-> "ADR", labels |-> <<"architecture-decision", "type:architecture:decision">>,
       state |-> "closed"],
      [title |-> "TEST", labels |-> <<"test-case", "type:test-case">>, state |-> "open"] }

\* The bodies of the issues of the store.
OrphanBodyTokens ==
    {Keyword("traces_to", "Title", FALSE, TRUE), Keyword("verified_by", "Title", FALSE, TRUE),
     RefToken("5")}
OrphanIssues ==
    {[title |-> p.title, labels |-> p.labels, state |-> p.state, body |-> b] :
        p \in OrphanProfiles, b \in SeqsUpTo(OrphanBodyTokens, MaxBody)}

\* fetch_all_requirements of the report (lines 75-114): issues of any state that
\* carry one of the labels, in the order the API returns them.
ReportFetch ==
    /\ o_pc = "start"
    /\ \E fetched \in Orderings({n \in DOMAIN o_store :
                \E l \in Range(o_store[n].labels) : l \in REPORT_REQUIREMENT_LABELS}) :
          o_issues' = fetched
    /\ o_pc' = "report"
    /\ UNCHANGED <<o_store, orphans>>
    /\ UNCHANGED <<parserVars, issueVars, mdVars,
                   numberingVars, scannerVars, extractVars, auditVars>>

\* Lines 265-271: is an issue listed as an orphan by the report?
ReportIsOrphan(issue) ==
    /\ report_get_requirement_type(issue.title, issue.labels) # "StR"
    /\ extract_links(issue.body).traces_to = <<>>

\* generate_matrix, lines 259-271: the orphans among the fetched issues.
ReportOrphans ==
    /\ o_pc = "report"
    /\ orphans' = SelectSeq(o_issues, LAMBDA n : ReportIsOrphan(o_store[n]))
    /\ o_pc' = "report_done"
    /\ UNCHANGED <<o_store, o_issues>>
    /\ UNCHANGED <<parserVars, issueVars, mdVars,
                   numberingVars, scannerVars, extractVars, auditVars>>

\* fetch_all_requirements of the orphan check (lines 54-87): open issues that
\* carry one of the labels.
CheckFetch ==
    /\ o_pc = "start"
    /\ \E fetched \in Orderings({n \in DOMAIN o_store :
                /\ o_store[n].state = "open"
                /\ \E l \in Range(o_store[n].labels) : l \in ORPHAN_REQUIREMENT_LABELS}) :
          o_issues' = fetched
    /\ o_pc' = "check"
    /\ UNCHANGED <<o_store, orphans>>
    /\ UNCHANGED <<parserVars, issueVars, mdVars,
                   numberingVars, scannerVars, extractVars, auditVars>>

\* find_orphans, lines 103-116: the fetched issues without parent links.
CheckOrphans ==
    /\ o_pc = "check"
    /\ orphans' = SelectSeq(o_issues, LAMBDA n : extract_parent_links(o_store[n].body) = <<>>)
    /\ o_pc' = "check_done"
    /\ UNCHANGED <<o_store, o_issues>>
    /\ UNCHANGED <<parserVars, issueVars, mdVars,
                   numberingVars, scannerVars, extractVars, auditVars>>

NextOrphans == ReportFetch \/ ReportOrphans \/ CheckFetch \/ CheckOrphans

----------------------------------------------------------------------------
(* spec_parser.py: parse_file on the text of a file                        *)

MaxBlobs == 2
MaxLines == 2

\* The start of a file as FRONT_MATTER_RE (line 57) sees it: "absent" (no leading
\* '---' line), "unclosed" (no closing '---' line) or "closed"; the block holds
\* an id line with the value `id` ("" when there is none or the value is empty),
\* written with a colon or without one.
FrontMatter(form, id, colon) == [form |-> form, id |-> id, colon |-> colon]
FrontMatters ==
    {FrontMatter("absent", "", FALSE), FrontMatter("unclosed", "ADR-003", TRUE),
     FrontMatter("closed", "", TRUE), FrontMatter("closed", "ADR-003", TRUE),
     FrontMatter("closed", "ADR-003", FALSE)}

\* A line of the body: whether it starts with '#'s and a blank, and its words in
\* order, each an identifier or "words" for any other text.
Line(heading, tokens) == [heading |-> heading, tokens |-> tokens]
LineForms ==
    {Line(TRUE, <<"ADR-003", "words">>), Line(TRUE, <<"words", "ADR-003">>),
     Line(TRUE, <<"TEST-001", "ADR-003">>), Line(FALSE, <<"ADR-003", "TEST-001">>),
     Line(FALSE, <<"words", "ADR-003">>), Line(FALSE, <<"TEST-001", "words">>),
     Line(FALSE, <<"words">>)}

NoText == [path |-> [dir |-> 0, name |-> 0], front |-> FrontMatter("absent", "", FALSE),
           lines |-> <<>>]

\* extract_front_matter, lines 78-88: the dict of the 'key: value' lines of a
\* closed block; lines without a colon are skipped.
extract_front_matter_Unclosed(front) ==
    IF front.colon /\ front.id # "" THEN [k \in {"id"} |-> front.id] ELSE EmptyDict

extract_front_matter(front) ==
    IF front.form # "closed" THEN EmptyDict
    ELSE IF front.colon /\ front.id # "" THEN [k \in {"id"} |-> front.id]
    ELSE EmptyDict

\* The ids of the definitions among items (definitions_found).
DefinedIn(list) ==
    {list[k].id : k \in {j \in 1..Len(list) : list[j].sourceType = "definition"}}

\* HEADING_DEF_PATTERN (lines 38-41): a heading line whose text begins with an id.
HeadingMatches(line) == line.heading /\ line.tokens[1] \in SpecIds

\* Line 112 without the test.
NotYetDefined_Always(id_, definitions_found) == TRUE

\* Line 112: id_ not in definitions_found.
NotYetDefined(id_, definitions_found) == id_ \notin definitions_found

\* Lines 110-120: the definitions of the headings, in text order.
RECURSIVE HeadingDefinitions(_, _, _)
HeadingDefinitions(list, lines, path) ==
    IF lines = <<>> THEN list
    ELSE IF HeadingMatches(Head(lines))
              /\ NotYetDefined(Head(lines).tokens[1], DefinedIn(list))
         THEN HeadingDefinitions(
                 Append(list, Item(Head(lines).tokens[1], "definition", path)),
                 Tail(lines), path)
         ELSE HeadingDefinitions(list, Tail(lines), path)

\* Lines 130-141: the ids of one line that are neither definitions nor in items.
RECURSIVE AddReferences(_, _, _, _)
AddReferences(list, ids_in_line, definitions_found, path) ==
    IF ids_in_line = <<>> THEN list
    ELSE LET id_ == Head(ids_in_line)
         IN IF id_ \in definitions_found
               \/ \E k \in 1..Len(list) : list[k].id = id_
            THEN AddReferences(list, Tail(ids_in_line), definitions_found, path)
            ELSE AddReferences(Append(list, Item(id_, "reference", path)),
                               Tail(ids_in_line), definitions_found, path)

\* Lines 123-141: the lines on which ID_PATTERN matches after strip('# ') are
\* those that begin with an id; REF_PATTERN.findall gives the ids of such a line.
RECURSIVE ReferenceScan(_, _, _, _)
ReferenceScan(list, lines, definitions_found, path) ==
    IF lines = <<>> THEN list
    ELSE IF Head(lines).tokens[1] \in SpecIds
         THEN ReferenceScan(
                 AddReferences(list, SelectSeq(Head(lines).tokens, LAMBDA t : t \in SpecIds),
                               definitions_found, path),
                 Tail(lines), definitions_found, path)
         ELSE ReferenceScan(list, Tail(lines), definitions_found, path)

\* parse_file, lines 91-142.
parse_file(t) ==
    LET fm == extract_front_matter(t.front)
        primary_id == DictGet(fm, "id", "")
        from_front == IF primary_id # ""
                      THEN <<Item(primary_id, "definition", t.path)>> ELSE <<>>
        definitions == HeadingDefinitions(from_front, t.lines, t.path)
    IN ReferenceScan(definitions, t.lines, DefinedIn(definitions), t.path)

\* main, lines 171-177: the next markdown file is read and parsed.
ScanSpecText ==
    /\ p_pc = "scan_md"
    /\ Len(blobs_read) < MaxBlobs
    /\ \E path \in MdPaths, front \in FrontMatters, lines \in SeqsUpTo(LineForms, MaxLines) :
          LET t == [path |-> path, front |-> front, lines |-> lines]
          IN /\ CanScanNext(path)
             /\ path \notin Range(blobs_read)
             /\ Len(all_items) + Len(parse_file(t)) <= MaxItems
             /\ all_items' = all_items \o parse_file(t)
             /\ blob_text' = t
             /\ blobs_read' = Append(blobs_read, path)
    /\ UNCHANGED <<p_pc, p_idx, seen, dedup, duplicate_definition_ids,
                   out_items, out_duplicateDefinitionIds, warnings>>
    /\ UNCHANGED <<issueVars, mdVars, numberingVars, orphanVars, extractVars, auditVars>>

\* main, lines 176-179: parse_file raises (the file cannot be read); the failure
\* is reported and the loop goes on.
ScanSpecTextFails ==
    /\ p_pc = "scan_md"
    /\ Len(blobs_read) < MaxBlobs
    /\ \E path \in MdPaths :
          /\ CanScanNext(path)
          /\ path \notin Range(blobs_read)
          /\ warnings' = Append(warnings, path)
          /\ blobs_read' = Append(blobs_read, path)
    /\ UNCHANGED <<p_pc, all_items, p_idx, seen, dedup, duplicate_definition_ids,
                   out_items, out_duplicateDefinitionIds, blob_text>>
    /\ UNCHANGED <<issueVars, mdVars, numberingVars, orphanVars, extractVars, auditVars>>

NextScanner == ScanSpecText \/ ScanSpecTextFails \/ StartDedup \/ DedupStep \/ WriteIndex

----------------------------------------------------------------------------
(* The link extractors on one text: build-traceability.py scan_markdown and *)
(* scan_test_file, extract_issue_links, extract_all_refs, extract_links and *)
(* extract_parent_links.                                                    *)

MaxText == 3

\* The letter cases, the keywords and the other tokens of the texts.
LetterCases == {"Title", "lower", "UPPER"}
TracesToKeywords ==
    {Keyword("traces_to", c, b, col) : c \in LetterCases, b \in BOOLEAN, col \in BOOLEAN}
TextTokens ==
    TracesToKeywords
      \cup {Keyword("verified_by", "Title", TRUE, TRUE)}
      \cup {RefToken("5"), RefToken("05"), RefToken("7"), ListRef("7")}
      \cup {Words, Newline, Other("filler", ""), Other("comment", ""),
            Other("heading_id", "REQ-F-001"), Other("mention_id", "REQ-F-002")}
Texts == SeqsUpTo(TextTokens, MaxText)

\* The ids a file name can carry for REQ_F_ID_PATTERN ("" when it has none), and
\* the id scan_test_file makes of the stem of a test file (line 136).
FileNameIds == {"", "REQ-F-001"}
TestFileId == "TEST-test_login"

\* TRACES_TO_PATTERN and its like (lines 24-28): with IGNORECASE any letter
\* case, the keyword wrapped in ** and followed by a colon.
BoldKeywordMatches(tok, rel) ==
    /\ tok.kind = "keyword"
    /\ tok.rel = rel
    /\ tok.bold
    /\ tok.colon

\* '.*?#(\d+)' from position j: the position of the first '#' token before the
\* end of the line, 0 when the line has none.
RECURSIVE FirstRefOnLine(_, _)
FirstRefOnLine(text, j) ==
    IF j > Len(text) \/ text[j].kind \in {"newline", "heading_id"} THEN 0
    ELSE IF HasRef(text[j]) THEN j
    ELSE FirstRefOnLine(text, j + 1)

\* PATTERN.finditer(content) for one relation, from position i: the matches as
\* <<relation, number>>, in text order.
RECURSIVE BoldFindIter(_, _, _)
BoldFindIter(text, rel, i) ==
    IF i > Len(text) THEN <<>>
    ELSE IF BoldKeywordMatches(text[i], rel) /\ FirstRefOnLine(text, i + 1) # 0
         THEN LET j == FirstRefOnLine(text, i + 1)
              IN <<<<rel, RefNumber(text[j])>>>> \o BoldFindIter(text, rel, j + 1)
         ELSE BoldFindIter(text, rel, i + 1)

\* The matches of the five patterns in a text (lines 85-108).
RECURSIVE MdMatches(_, _)
MdMatches(text, rels) ==
    IF rels = <<>> THEN <<>>
    ELSE BoldFindIter(text, Head(rels), 1) \o MdMatches(text, Tail(rels))

\* id_pattern.search(content[:500]), line 67: the first id of the first 500
\* characters, "" when there is none; a "filler" token is 500 characters long
\* and the other tokens of a text are shorter than that together.
RECURSIVE SearchContentStart(_, _)
SearchContentStart(text, i) ==
    IF i > Len(text) \/ text[i].kind = "filler" THEN ""
    ELSE IF text[i].id # "" THEN text[i].id
    ELSE SearchContentStart(text, i + 1)

\* Lines 61-71: the id of the artifact, from the file name or else from the
\* start of the content; "" when scan_markdown returns without an artifact.
ArtifactId_FileNameOnly(name_id, text) == name_id

ArtifactId(name_id, text) ==
    IF name_id # "" THEN name_id ELSE SearchContentStart(text, 1)

\* CODE_COMMENT_PATTERN.finditer(content), line 30: a comment keyword directly
\* followed by ':?\s*#<digits>'.
RECURSIVE CommentFindIter(_, _)
CommentFindIter(text, i) ==
    IF i > Len(text) THEN <<>>
    ELSE IF text[i].kind = "comment"
         THEN LET j == SkipSpace(text, i + 1)
              IN IF j <= Len(text) /\ text[j].kind = "ref"
                 THEN <<RefNumber(text[j])>> \o CommentFindIter(text, j + 1)
                 ELSE CommentFindIter(text, i + 1)
         ELSE CommentFindIter(text, i + 1)

\* The issue-path view of a text (BodyTokens): the number of each '#' token,
\* PlainText for any other token.
TokenBody(text) ==
    [k \in 1..Len(text) |-> IF HasRef(text[k]) THEN RefNumber(text[k]) ELSE PlainText]

\* extract_all_refs (validate-github-issues.py, lines 11-16).
extract_all_refs(body) ==
    IF body = <<>> THEN <<>>
    ELSE SortedList({RefNumber(body[k]) : k \in {j \in 1..Len(body) : HasRef(body[j])}})

NoReport == [traces_to |-> <<>>, verified_by |-> <<>>]

\* scan_markdown (lines 53-124) on a file of 02-requirements/functional.
ExtractScanMarkdown ==
    /\ x_pc = "read"
    /\ \E name_id \in FileNameIds :
          LET artifact_id == ArtifactId(name_id, x_text)
              content == MdMatches(x_text, MdRelations)
          IN /\ x_name' = name_id
             /\ IF artifact_id = ""
                THEN UNCHANGED <<x_artifacts, x_links>>
                ELSE /\ x_artifacts' =
                           Append(x_artifacts, MdArtifact(artifact_id, "REQ-F", content))
                     /\ x_links' = LinksAppendAll(x_links, artifact_id, content, MdRelations)
    /\ x_fn' = "scan_markdown"
    /\ x_pc' = "done"
    /\ UNCHANGED <<x_text, x_refs, x_report>>
    /\ UNCHANGED <<parserVars, issueVars, mdVars,
                   numberingVars, orphanVars, scannerVars, auditVars>>

\* scan_test_file (lines 126-142).
ExtractScanTestFile ==
    /\ x_pc = "read"
    /\ LET nums == CommentFindIter(x_text, 1)
       IN x_artifacts' = x_artifacts \o
              [k \in 1..Len(nums) |->
                  [id |-> TestFileId, type |-> "TEST", verifies |-> <<nums[k]>>]]
    /\ x_fn' = "scan_test_file"
    /\ x_pc' = "done"
    /\ UNCHANGED <<x_text, x_name, x_links, x_refs, x_report>>
    /\ UNCHANGED <<parserVars, issueVars, mdVars,
                   numberingVars, orphanVars, scannerVars, auditVars>>

\* extract_issue_links(body)['traces_to'] (github-issues-to-traceability-json.py).
ExtractIssueLinks ==
    /\ x_pc = "read"
    /\ x_refs' = extract_issue_links(TokenBody(x_text))
    /\ x_fn' = "extract_issue_links"
    /\ x_pc' = "done"
    /\ UNCHANGED <<x_text, x_name, x_artifacts, x_links, x_report>>
    /\ UNCHANGED <<parserVars, issueVars, mdVars,
                   numberingVars, orphanVars, scannerVars, auditVars>>

\* extract_all_refs(body) (validate-github-issues.py).
ExtractAllRefs ==
    /\ x_pc = "read"
    /\ x_refs' = extract_all_refs(x_text)
    /\ x_fn' = "extract_all_refs"
    /\ x_pc' = "done"
    /\ UNCHANGED <<x_text, x_name, x_artifacts, x_links, x_report>>
    /\ UNCHANGED <<parserVars, issueVars, mdVars,
                   numberingVars, orphanVars, scannerVars, auditVars>>

\* extract_links(issue_body) (github-traceability-report.py).
ExtractLinks ==
    /\ x_pc = "read"
    /\ x_report' = extract_links(x_text)
    /\ x_fn' = "extract_links"
    /\ x_pc' = "done"
    /\ UNCHANGED <<x_text, x_name, x_artifacts, x_links, x_refs>>
    /\ UNCHANGED <<parserVars, issueVars, mdVars,
                   numberingVars, orphanVars, scannerVars, auditVars>>

\* extract_parent_links(issue_body) (github-orphan-check.py).
ExtractParentLinks ==
    /\ x_pc = "read"
    /\ x_refs' = extract_parent_links(x_text)
    /\ x_fn' = "extract_parent_links"
    /\ x_pc' = "done"
    /\ UNCHANGED <<x_text, x_name, x_artifacts, x_links, x_report>>
    /\ UNCHANGED <<parserVars, issueVars, mdVars,
                   numberingVars, orphanVars, scannerVars, auditVars>>

NextExtract ==
    \/ ExtractScanMarkdown
    \/ ExtractScanTestFile
    \/ ExtractIssueLinks
    \/ ExtractAllRefs
    \/ ExtractLinks
    \/ ExtractParentLinks

----------------------------------------------------------------------------
(* audit-issue-labels.py                                                   *)

MaxLabels == 3

\* The labels an issue of the model can carry, and the titles.
PriorityLabels == {"priority:p0", "priority:p1", "priority:p2", "priority:p3"}
StatusLabels == {"status:backlog", "status:in-progress", "status:closed"}
AuditLabels ==
    PriorityLabels \cup StatusLabels \cup {"type:requirement:functional", "bug"}
AuditTitles == {"REQ-F-001: Login", "Fix login", "Security blocker"}

\* l.startswith(prefix) for the prefixes validate_issue looks at (lines 98-104):
\* the prefix of that list a label starts with, "" for none.
LabelPrefix(l) ==
    CASE l \in PriorityLabels -> "priority:"
      [] l \in StatusLabels -> "status:"
      [] l \in {"type:requirement:functional", "type:test", "type:design",
                "type:implementation"} -> "type:"
      [] l = "phase:02-requirements" -> "phase:"
      [] OTHER -> ""

WithPrefix(labels, prefix) == SelectSeq(labels, LAMBDA l : LabelPrefix(l) = prefix)

\* The label lists an issue can have: distinct labels, in any order.
LabelLists ==
    {s \in SeqsUpTo(AuditLabels, MaxLabels) :
        \A a, b \in 1..Len(s) : a # b => s[a] # s[b]}

\* The issues the remote store can hold, and the value of a_issue when the
\* audit does not run.
AuditIssues == [title : AuditTitles, state : {"open", "closed"}, labels : LabelLists]
NoIssue == [title |-> "", state |-> "open", labels |-> <<>>]

\* The LabelIssue dataclass, lines 32-44 (the fields the fixes depend on).
LabelIssue(rule, severity, auto_fixable, fix_labels_add, fix_labels_remove) ==
    [rule |-> rule, severity |-> severity, auto_fixable |-> auto_fixable,
     fix_labels_add |-> fix_labels_add, fix_labels_remove |-> fix_labels_remove]

\* _infer_type_from_title, lines 259-297, on the titles of the model.
infer_type_from_title(title) ==
    IF title = "REQ-F-001: Login" THEN "type:requirement:functional" ELSE ""

\* _infer_priority, lines 299-320: 'security' and 'blocker' are P0 words; no
\* title of the model has a P1 word, no label of the model is the ADR type.
infer_priority(type_labels, title) ==
    IF title = "Security blocker" THEN "priority:p0" ELSE "priority:p2"

\* _infer_phase, lines 322-337.
infer_phase(type_label) ==
    IF type_label = "type:requirement:functional" THEN "phase:02-requirements" ELSE ""

\* priority_labels[1:], line 168.
AllButFirst(list) == Tail(list)

\* Rule 1, lines 112-138.
MissingType(issue) ==
    IF WithPrefix(issue.labels, "type:") # <<>> THEN <<>>
    ELSE IF infer_type_from_title(issue.title) # ""
         THEN <<LabelIssue("Missing Type Label", "warning", TRUE,
                           <<infer_type_from_title(issue.title)>>, <<>>)>>
         ELSE <<LabelIssue("Missing Type Label", "error", FALSE, <<>>, <<>>)>>

\* Rule 2, lines 140-169.
PriorityRule(issue) ==
    LET priority_labels == WithPrefix(issue.labels, "priority:")
    IN IF \E k \in 1..Len(issue.labels) :
              issue.labels[k] \in {"bug", "question", "documentation"}
       THEN <<>>
       ELSE IF priority_labels = <<>>
            THEN <<LabelIssue("Missing Priority Label", "warning", TRUE,
                              <<infer_priority(WithPrefix(issue.labels, "type:"),
                                               issue.title)>>, <<>>)>>
            ELSE IF Len(priority_labels) > 1
                 THEN <<LabelIssue("Multiple Priority Labels", "error", TRUE,
                                   <<>>, AllButFirst(priority_labels))>>
                 ELSE <<>>

\* Rule 3, lines 171-194.
StatusRule(issue) ==
    LET status_labels == WithPrefix(issue.labels, "status:")
    IN IF status_labels = <<>>
       THEN <<LabelIssue("Missing Status Label", "warning", TRUE,
                         <<"status:backlog">>, <<>>)>>
       ELSE IF Len(status_labels) > 1
            THEN <<LabelIssue("Multiple Status Labels", "error", FALSE, <<>>, <<>>)>>
            ELSE <<>>

\* Rule 4, lines 196-210.
ClosedRule(issue) ==
    IF issue.state = "closed" /\ "status:closed" \notin Range(issue.labels)
    THEN <<LabelIssue("Closed Issue Status", "info", TRUE, <<"status:closed">>,
                      SelectSeq(WithPrefix(issue.labels, "status:"),
                                LAMBDA l : l # "status:closed"))>>
    ELSE <<>>

\* Rule 5, lines 212-223 (no label of the model is a test-type label).
TestTypeRule(issue) ==
    IF "type:test" \in Range(WithPrefix(issue.labels, "type:"))
    THEN <<LabelIssue("Missing Test Type", "warning", FALSE, <<>>, <<>>)>>
    ELSE <<>>

\* Rule 7, lines 242-256.
PhaseRule(issue) ==
    LET type_labels == WithPrefix(issue.labels, "type:")
    IN IF WithPrefix(issue.labels, "phase:") = <<>> /\ type_labels # <<>>
          /\ infer_phase(type_labels[1]) # ""
       THEN <<LabelIssue("Missing Phase Label", "info", TRUE,
                         <<infer_phase(type_labels[1])>>, <<>>)>>
       ELSE <<>>

\* validate_issue, lines 88-257; rule 6 (lines 225-240) needs a pattern:* label,
\* which no issue of the model has.
validate_issue(issue) ==
    MissingType(issue) \o PriorityRule(issue) \o StatusRule(issue)
        \o ClosedRule(issue) \o TestTypeRule(issue) \o PhaseRule(issue)

\* POST .../issues/N/labels: the labels not yet on the issue are added.
RECURSIVE AddLabels(_, _)
AddLabels(remote, add) ==
    IF add = <<>> THEN remote
    ELSE AddLabels(IF Head(add) \in Range(remote) THEN remote
                   ELSE Append(remote, Head(add)),
                   Tail(add))

\* DELETE .../issues/N/labels/<label>, once per label (404 when it is not there).
RemoveLabels(remote, remove) ==
    SelectSeq(remote, LAMBDA l : l \notin Range(remove))

Request(method, label) == [method |-> method, label |-> label]

\* The requests apply_fixes sends for a problem (lines 349-364): the POST of the
\* label to add (the fixes of validate_issue add one label at most), then one
\* DELETE per label to remove.
FixRequests(problem) ==
    [k \in 1..Len(problem.fix_labels_add) |-> Request("POST", problem.fix_labels_add[k])]
        \o [k \in 1..Len(problem.fix_labels_remove) |->
               Request("DELETE", problem.fix_labels_remove[k])]

\* apply_fixes with the requests sent in a dry run too.
apply_fixes_NoDryRun(problem, dry, remote) ==
    IF ~problem.auto_fixable
    THEN [remote |-> remote, requests |-> <<>>, fixed |-> FALSE]
    ELSE [remote |-> RemoveLabels(AddLabels(remote, problem.fix_labels_add),
                                  problem.fix_labels_remove),
          requests |-> FixRequests(problem),
          fixed |-> problem.fix_labels_add # <<>> \/ problem.fix_labels_remove # <<>>]

\* apply_fixes, lines 341-371: the labels of the remote store after the call, the
\* requests sent and the value returned.
apply_fixes(problem, dry, remote) ==
    IF ~problem.auto_fixable
    THEN [remote |-> remote, requests |-> <<>>, fixed |-> FALSE]
    ELSE [remote |-> IF dry THEN remote
                     ELSE RemoveLabels(AddLabels(remote, problem.fix_labels_add),
                                       problem.fix_labels_remove),
          requests |-> IF dry THEN <<>> ELSE FixRequests(problem),
          fixed |-> problem.fix_labels_add # <<>> \/ problem.fix_labels_remove # <<>>]

\* main, lines 493-510: the issue is validated; the fix loop is entered when
\* --fix-auto or --dry-run is given.
ValidateIssue ==
    /\ a_pc = "validate"
    /\ all_problems' = validate_issue(a_issue)
    /\ fixable' = IF fix_auto \/ dry_run
                  THEN SelectSeq(validate_issue(a_issue), LAMBDA p : p.auto_fixable)
                  ELSE <<>>
    /\ a_pc' = IF fix_auto \/ dry_run THEN "fix" ELSE "done"
    /\ UNCHANGED <<a_issue, a_remote, fix_auto, dry_run, a_idx, a_requests, fixed_count>>
    /\ UNCHANGED <<parserVars, issueVars, mdVars, numberingVars, orphanVars,
                   scannerVars, extractVars>>

\* main, lines 519-521: apply_fixes for the next fixable problem.
ApplyFix ==
    /\ a_pc = "fix"
    /\ a_idx <= Len(fixable)
    /\ LET r == apply_fixes(fixable[a_idx], dry_run, a_remote)
       IN /\ a_remote' = r.remote
          /\ a_requests' = a_requests \o r.requests
          /\ fixed_count' = fixed_count + (IF r.fixed THEN 1 ELSE 0)
    /\ a_idx' = a_idx + 1
    /\ UNCHANGED <<a_pc, a_issue, fix_auto, dry_run, all_problems, fixable>>
    /\ UNCHANGED <<parserVars, issueVars, mdVars, numberingVars, orphanVars,
                   scannerVars, extractVars>>

\* main, lines 512-514 and 523-528: the loop is over, or nothing was fixable.
FinishAudit ==
    /\ a_pc = "fix"
    /\ a_idx > Len(fixable)
    /\ a_pc' = "done"
    /\ UNCHANGED <<a_issue, a_remote, fix_auto, dry_run, all_problems, fixable, a_idx,
                   a_requests, fixed_count>>
    /\ UNCHANGED <<parserVars, issueVars, mdVars, numberingVars, orphanVars,
                   scannerVars, extractVars>>

NextAudit == ValidateIssue \/ ApplyFix \/ FinishAudit

----------------------------------------------------------------------------
(* Specifications: one per program. The programs that a specification does *)
(* not run stay idle.                                                      *)

\* spec_parser.py: main starts with nothing scanned (lines 166-167, 209-211).
InitParser ==
    /\ p_pc = "scan_md"
    /\ all_items = <<>>
    /\ p_idx = 1
    /\ seen = EmptyDict
    /\ dedup = <<>>
    /\ duplicate_definition_ids = <<>>
    /\ out_items = <<>>
    /\ out_duplicateDefinitionIds = <<>>
    /\ blob_text = NoText
    /\ blobs_read = <<>>
    /\ warnings = <<>>
    /\ i_pc = "idle"
    /\ store = EmptyDict
    /\ label_idx = 1
    /\ all_issues = <<>>
    /\ seen_numbers = {}
    /\ title_detection = FALSE
    /\ issue_types = EmptyDict
    /\ i_idx = 1
    /\ body_read = <<>>
    /\ items = <<>>
    /\ forward_links = EmptyDict
    /\ backward_links = EmptyDict
    /\ requirements = <<>>
    /\ requirements_with_adr = {}
    /\ requirements_with_scenario = {}
    /\ requirements_with_test = {}
    /\ requirements_with_any_link = {}
    /\ i_metrics = EmptyDict
    /\ m_pc = "idle"
    /\ m_dir = 1
    /\ n_files = 0
    /\ artifacts = [c \in Collections |-> <<>>]
    /\ links = EmptyDict
    /\ m_metrics = EmptyDict
    /\ n_pc = "idle"
    /\ n_scanned = 0
    /\ id_locations = EmptyDict
    /\ by_type = EmptyDict
    /\ gaps = EmptyDict
    /\ duplicates = EmptyDict
    /\ strict = FALSE
    /\ exit_code = NoExit
    /\ o_pc = "idle"
    /\ o_store = EmptyDict
    /\ o_issues = <<>>
    /\ orphans = <<>>
    /\ x_pc = "idle"
    /\ x_text = <<>>
    /\ x_fn = ""
    /\ x_name = ""
    /\ x_artifacts = <<>>
    /\ x_links = EmptyDict
    /\ x_refs = <<>>
    /\ x_report = NoReport
    /\ a_pc = "idle"
    /\ a_issue = NoIssue
    /\ a_remote = <<>>
    /\ fix_auto = FALSE
    /\ dry_run = FALSE
    /\ all_problems = <<>>
    /\ fixable = <<>>
    /\ a_idx = 1
    /\ a_requests = <<>>
    /\ fixed_count = 0

\* github-issues-to-traceability-json.py: the store holds any issues; main has
\* fetched nothing yet (lines 279-280, 308-320).
InitIssues ==
    /\ p_pc = "idle"
    /\ all_items = <<>>
    /\ p_idx = 1
    /\ seen = EmptyDict
    /\ dedup = <<>>
    /\ duplicate_definition_ids = <<>>
    /\ out_items = <<>>
    /\ out_duplicateDefinitionIds = <<>>
    /\ blob_text = NoText
    /\ blobs_read = <<>>
    /\ warnings = <<>>
    /\ i_pc = "fetch"
    /\ store \in UNION {[S -> IssueProfiles] : S \in SUBSET IssueNumbers}
    /\ label_idx = 1
    /\ all_issues = <<>>
    /\ seen_numbers = {}
    /\ title_detection = FALSE
    /\ issue_types = EmptyDict
    /\ i_idx = 1
    /\ body_read = <<>>
    /\ items = <<>>
    /\ forward_links = EmptyDict
    /\ backward_links = EmptyDict
    /\ requirements = <<>>
    /\ requirements_with_adr = {}
    /\ requirements_with_scenario = {}
    /\ requirements_with_test = {}
    /\ requirements_with_any_link = {}
    /\ i_metrics = EmptyDict
    /\ m_pc = "idle"
    /\ m_dir = 1
    /\ n_files = 0
    /\ artifacts = [c \in Collections |-> <<>>]
    /\ links = EmptyDict
    /\ m_metrics = EmptyDict
    /\ n_pc = "idle"
    /\ n_scanned = 0
    /\ id_locations = EmptyDict
    /\ by_type = EmptyDict
    /\ gaps = EmptyDict
    /\ duplicates = EmptyDict
    /\ strict = FALSE
    /\ exit_code = NoExit
    /\ o_pc = "idle"
    /\ o_store = EmptyDict
    /\ o_issues = <<>>
    /\ orphans = <<>>
    /\ x_pc = "idle"
    /\ x_text = <<>>
    /\ x_fn = ""
    /\ x_name = ""
    /\ x_artifacts = <<>>
    /\ x_links = EmptyDict
    /\ x_refs = <<>>
    /\ x_report = NoReport
    /\ a_pc = "idle"
    /\ a_issue = NoIssue
    /\ a_remote = <<>>
    /\ fix_auto = FALSE
    /\ dry_run = FALSE
    /\ all_problems = <<>>
    /\ fixable = <<>>
    /\ a_idx = 1
    /\ a_requests = <<>>
    /\ fixed_count = 0

\* build-traceability.py: TraceabilityBuilder.__init__ (lines 41-51).
InitMarkdown ==
    /\ p_pc = "idle"
    /\ all_items = <<>>
    /\ p_idx = 1
    /\ seen = EmptyDict
    /\ dedup = <<>>
    /\ duplicate_definition_ids = <<>>
    /\ out_items = <<>>
    /\ out_duplicateDefinitionIds = <<>>
    /\ blob_text = NoText
    /\ blobs_read = <<>>
    /\ warnings = <<>>
    /\ i_pc = "idle"
    /\ store = EmptyDict
    /\ label_idx = 1
    /\ all_issues = <<>>
    /\ seen_numbers = {}
    /\ title_detection = FALSE
    /\ issue_types = EmptyDict
    /\ i_idx = 1
    /\ body_read = <<>>
    /\ items = <<>>
    /\ forward_links = EmptyDict
    /\ backward_links = EmptyDict
    /\ requirements = <<>>
    /\ requirements_with_adr = {}
    /\ requirements_with_scenario = {}
    /\ requirements_with_test = {}
    /\ requirements_with_any_link = {}
    /\ i_metrics = EmptyDict
    /\ m_pc = "scan"
    /\ m_dir = 1
    /\ n_files = 0
    /\ artifacts = [c \in Collections |-> <<>>]
    /\ links = EmptyDict
    /\ m_metrics = EmptyDict
    /\ n_pc = "idle"
    /\ n_scanned = 0
    /\ id_locations = EmptyDict
    /\ by_type = EmptyDict
    /\ gaps = EmptyDict
    /\ duplicates = EmptyDict
    /\ strict = FALSE
    /\ exit_code = NoExit
    /\ o_pc = "idle"
    /\ o_store = EmptyDict
    /\ o_issues = <<>>
    /\ orphans = <<>>
    /\ x_pc = "idle"
    /\ x_text = <<>>
    /\ x_fn = ""
    /\ x_name = ""
    /\ x_artifacts = <<>>
    /\ x_links = EmptyDict
    /\ x_refs = <<>>
    /\ x_report = NoReport
    /\ a_pc = "idle"
    /\ a_issue = NoIssue
    /\ a_remote = <<>>
    /\ fix_auto = FALSE
    /\ dry_run = FALSE
    /\ all_problems = <<>>
    /\ fixable = <<>>
    /\ a_idx = 1
    /\ a_requests = <<>>
    /\ fixed_count = 0

\* Either of the two metric calculators runs.
InitMetrics ==
    \/
        /\ p_pc = "idle"
        /\ all_items = <<>>
        /\ p_idx = 1
        /\ seen = EmptyDict
        /\ dedup = <<>>
        /\ duplicate_definition_ids = <<>>
        /\ out_items = <<>>
        /\ out_duplicateDefinitionIds = <<>>
        /\ blob_text = NoText
        /\ blobs_read = <<>>
        /\ warnings = <<>>
        /\ i_pc = "fetch"
        /\ store \in UNION {[S -> IssueProfiles] : S \in SUBSET IssueNumbers}
        /\ label_idx = 1
        /\ all_issues = <<>>
        /\ seen_numbers = {}
        /\ title_detection = FALSE
        /\ issue_types = EmptyDict
        /\ i_idx = 1
        /\ body_read = <<>>
        /\ items = <<>>
        /\ forward_links = EmptyDict
        /\ backward_links = EmptyDict
        /\ requirements = <<>>
        /\ requirements_with_adr = {}
        /\ requirements_with_scenario = {}
        /\ requirements_with_test = {}
        /\ requirements_with_any_link = {}
        /\ i_metrics = EmptyDict
        /\ m_pc = "idle"
        /\ m_dir = 1
        /\ n_files = 0
        /\ artifacts = [c \in Collections |-> <<>>]
        /\ links = EmptyDict
        /\ m_metrics = EmptyDict
        /\ n_pc = "idle"
        /\ n_scanned = 0
        /\ id_locations = EmptyDict
        /\ by_type = EmptyDict
        /\ gaps = EmptyDict
        /\ duplicates = EmptyDict
        /\ strict = FALSE
        /\ exit_code = NoExit
        /\ o_pc = "idle"
        /\ o_store = EmptyDict
        /\ o_issues = <<>>
        /\ orphans = <<>>
        /\ x_pc = "idle"
        /\ x_text = <<>>
        /\ x_fn = ""
        /\ x_name = ""
        /\ x_artifacts = <<>>
        /\ x_links = EmptyDict
        /\ x_refs = <<>>
        /\ x_report = NoReport
        /\ a_pc = "idle"
        /\ a_issue = NoIssue
        /\ a_remote = <<>>
        /\ fix_auto = FALSE
        /\ dry_run = FALSE
        /\ all_problems = <<>>
        /\ fixable = <<>>
        /\ a_idx = 1
        /\ a_requests = <<>>
        /\ fixed_count = 0
    \/
        /\ p_pc = "idle"
        /\ all_items = <<>>
        /\ p_idx = 1
        /\ seen = EmptyDict
        /\ dedup = <<>>
        /\ duplicate_definition_ids = <<>>
        /\ out_items = <<>>
        /\ out_duplicateDefinitionIds = <<>>
        /\ blob_text = NoText
        /\ blobs_read = <<>>
        /\ warnings = <<>>
        /\ i_pc = "idle"
        /\ store = EmptyDict
        /\ label_idx = 1
        /\ all_issues = <<>>
        /\ seen_numbers = {}
        /\ title_detection = FALSE
        /\ issue_types = EmptyDict
        /\ i_idx = 1
        /\ body_read = <<>>
        /\ items = <<>>
        /\ forward_links = EmptyDict
        /\ backward_links = EmptyDict
        /\ requirements = <<>>
        /\ requirements_with_adr = {}
        /\ requirements_with_scenario = {}
        /\ requirements_with_test = {}
        /\ requirements_with_any_link = {}
        /\ i_metrics = EmptyDict
        /\ m_pc = "scan"
        /\ m_dir = 1
        /\ n_files = 0
        /\ artifacts = [c \in Collections |-> <<>>]
        /\ links = EmptyDict
        /\ m_metrics = EmptyDict
        /\ n_pc = "idle"
        /\ n_scanned = 0
        /\ id_locations = EmptyDict
        /\ by_type = EmptyDict
        /\ gaps = EmptyDict
        /\ duplicates = EmptyDict
        /\ strict = FALSE
        /\ exit_code = NoExit
        /\ o_pc = "idle"
        /\ o_store = EmptyDict
        /\ o_issues = <<>>
        /\ orphans = <<>>
        /\ x_pc = "idle"
        /\ x_text = <<>>
        /\ x_fn = ""
        /\ x_name = ""
        /\ x_artifacts = <<>>
        /\ x_links = EmptyDict
        /\ x_refs = <<>>
        /\ x_report = NoReport
        /\ a_pc = "idle"
        /\ a_issue = NoIssue
        /\ a_remote = <<>>
        /\ fix_auto = FALSE
        /\ dry_run = FALSE
        /\ all_problems = <<>>
        /\ fixable = <<>>
        /\ a_idx = 1
        /\ a_requests = <<>>
        /\ fixed_count = 0

\* check-spec-numbering.py: analyze_numbering starts with no id found (line 57).
InitNumbering ==
    /\ p_pc = "idle"
    /\ all_items = <<>>
    /\ p_idx = 1
    /\ seen = EmptyDict
    /\ dedup = <<>>
    /\ duplicate_definition_ids = <<>>
    /\ out_items = <<>>
    /\ out_duplicateDefinitionIds = <<>>
    /\ blob_text = NoText
    /\ blobs_read = <<>>
    /\ warnings = <<>>
    /\ i_pc = "idle"
    /\ store = EmptyDict
    /\ label_idx = 1
    /\ all_issues = <<>>
    /\ seen_numbers = {}
    /\ title_detection = FALSE
    /\ issue_types = EmptyDict
    /\ i_idx = 1
    /\ body_read = <<>>
    /\ items = <<>>
    /\ forward_links = EmptyDict
    /\ backward_links = EmptyDict
    /\ requirements = <<>>
    /\ requirements_with_adr = {}
    /\ requirements_with_scenario = {}
    /\ requirements_with_test = {}
    /\ requirements_with_any_link = {}
    /\ i_metrics = EmptyDict
    /\ m_pc = "idle"
    /\ m_dir = 1
    /\ n_files = 0
    /\ artifacts = [c \in Collections |-> <<>>]
    /\ links = EmptyDict
    /\ m_metrics = EmptyDict
    /\ n_pc = "scan"
    /\ n_scanned = 0
    /\ id_locations = EmptyDict
    /\ by_type = EmptyDict
    /\ gaps = EmptyDict
    /\ duplicates = EmptyDict
    /\ strict \in BOOLEAN
    /\ exit_code = NoExit
    /\ o_pc = "idle"
    /\ o_store = EmptyDict
    /\ o_issues = <<>>
    /\ orphans = <<>>
    /\ x_pc = "idle"
    /\ x_text = <<>>
    /\ x_fn = ""
    /\ x_name = ""
    /\ x_artifacts = <<>>
    /\ x_links = EmptyDict
    /\ x_refs = <<>>
    /\ x_report = NoReport
    /\ a_pc = "idle"
    /\ a_issue = NoIssue
    /\ a_remote = <<>>
    /\ fix_auto = FALSE
    /\ dry_run = FALSE
    /\ all_problems = <<>>
    /\ fixable = <<>>
    /\ a_idx = 1
    /\ a_requests = <<>>
    /\ fixed_count = 0

\* github-traceability-report.py or github-orphan-check.py: the store holds any
\* issues; nothing is fetched yet.
InitOrphans ==
    /\ p_pc = "idle"
    /\ all_items = <<>>
    /\ p_idx = 1
    /\ seen = EmptyDict
    /\ dedup = <<>>
    /\ duplicate_definition_ids = <<>>
    /\ out_items = <<>>
    /\ out_duplicateDefinitionIds = <<>>
    /\ blob_text = NoText
    /\ blobs_read = <<>>
    /\ warnings = <<>>
    /\ i_pc = "idle"
    /\ store = EmptyDict
    /\ label_idx = 1
    /\ all_issues = <<>>
    /\ seen_numbers = {}
    /\ title_detection = FALSE
    /\ issue_types = EmptyDict
    /\ i_idx = 1
    /\ body_read = <<>>
    /\ items = <<>>
    /\ forward_links = EmptyDict
    /\ backward_links = EmptyDict
    /\ requirements = <<>>
    /\ requirements_with_adr = {}
    /\ requirements_with_scenario = {}
    /\ requirements_with_test = {}
    /\ requirements_with_any_link = {}
    /\ i_metrics = EmptyDict
    /\ m_pc = "idle"
    /\ m_dir = 1
    /\ n_files = 0
    /\ artifacts = [c \in Collections |-> <<>>]
    /\ links = EmptyDict
    /\ m_metrics = EmptyDict
    /\ n_pc = "idle"
    /\ n_scanned = 0
    /\ id_locations = EmptyDict
    /\ by_type = EmptyDict
    /\ gaps = EmptyDict
    /\ duplicates = EmptyDict
    /\ strict = FALSE
    /\ exit_code = NoExit
    /\ o_pc = "start"
    /\ o_store \in UNION {[S -> OrphanIssues] : S \in SUBSET IssueNumbers}
    /\ o_issues = <<>>
    /\ orphans = <<>>
    /\ x_pc = "idle"
    /\ x_text = <<>>
    /\ x_fn = ""
    /\ x_name = ""
    /\ x_artifacts = <<>>
    /\ x_links = EmptyDict
    /\ x_refs = <<>>
    /\ x_report = NoReport
    /\ a_pc = "idle"
    /\ a_issue = NoIssue
    /\ a_remote = <<>>
    /\ fix_auto = FALSE
    /\ dry_run = FALSE
    /\ all_problems = <<>>
    /\ fixable = <<>>
    /\ a_idx = 1
    /\ a_requests = <<>>
    /\ fixed_count = 0

\* spec_parser.py with the text of the markdown files: main starts with nothing
\* scanned.
InitScanner ==
    /\ p_pc = "scan_md"
    /\ all_items = <<>>
    /\ p_idx = 1
    /\ seen = EmptyDict
    /\ dedup = <<>>
    /\ duplicate_definition_ids = <<>>
    /\ out_items = <<>>
    /\ out_duplicateDefinitionIds = <<>>
    /\ blob_text = NoText
    /\ blobs_read = <<>>
    /\ warnings = <<>>
    /\ i_pc = "idle"
    /\ store = EmptyDict
    /\ label_idx = 1
    /\ all_issues = <<>>
    /\ seen_numbers = {}
    /\ title_detection = FALSE
    /\ issue_types = EmptyDict
    /\ i_idx = 1
    /\ body_read = <<>>
    /\ items = <<>>
    /\ forward_links = EmptyDict
    /\ backward_links = EmptyDict
    /\ requirements = <<>>
    /\ requirements_with_adr = {}
    /\ requirements_with_scenario = {}
    /\ requirements_with_test = {}
    /\ requirements_with_any_link = {}
    /\ i_metrics = EmptyDict
    /\ m_pc = "idle"
    /\ m_dir = 1
    /\ n_files = 0
    /\ artifacts = [c \in Collections |-> <<>>]
    /\ links = EmptyDict
    /\ m_metrics = EmptyDict
    /\ n_pc = "idle"
    /\ n_scanned = 0
    /\ id_locations = EmptyDict
    /\ by_type = EmptyDict
    /\ gaps = EmptyDict
    /\ duplicates = EmptyDict
    /\ strict = FALSE
    /\ exit_code = NoExit
    /\ o_pc = "idle"
    /\ o_store = EmptyDict
    /\ o_issues = <<>>
    /\ orphans = <<>>
    /\ x_pc = "idle"
    /\ x_text = <<>>
    /\ x_fn = ""
    /\ x_name = ""
    /\ x_artifacts = <<>>
    /\ x_links = EmptyDict
    /\ x_refs = <<>>
    /\ x_report = NoReport
    /\ a_pc = "idle"
    /\ a_issue = NoIssue
    /\ a_remote = <<>>
    /\ fix_auto = FALSE
    /\ dry_run = FALSE
    /\ all_problems = <<>>
    /\ fixable = <<>>
    /\ a_idx = 1
    /\ a_requests = <<>>
    /\ fixed_count = 0

\* One link extractor is applied to one text: any text of the model has been read.
InitExtract ==
    /\ p_pc = "idle"
    /\ all_items = <<>>
    /\ p_idx = 1
    /\ seen = EmptyDict
    /\ dedup = <<>>
    /\ duplicate_definition_ids = <<>>
    /\ out_items = <<>>
    /\ out_duplicateDefinitionIds = <<>>
    /\ blob_text = NoText
    /\ blobs_read = <<>>
    /\ warnings = <<>>
    /\ i_pc = "idle"
    /\ store = EmptyDict
    /\ label_idx = 1
    /\ all_issues = <<>>
    /\ seen_numbers = {}
    /\ title_detection = FALSE
    /\ issue_types = EmptyDict
    /\ i_idx = 1
    /\ body_read = <<>>
    /\ items = <<>>
    /\ forward_links = EmptyDict
    /\ backward_links = EmptyDict
    /\ requirements = <<>>
    /\ requirements_with_adr = {}
    /\ requirements_with_scenario = {}
    /\ requirements_with_test = {}
    /\ requirements_with_any_link = {}
    /\ i_metrics = EmptyDict
    /\ m_pc = "idle"
    /\ m_dir = 1
    /\ n_files = 0
    /\ artifacts = [c \in Collections |-> <<>>]
    /\ links = EmptyDict
    /\ m_metrics = EmptyDict
    /\ n_pc = "idle"
    /\ n_scanned = 0
    /\ id_locations = EmptyDict
    /\ by_type = EmptyDict
    /\ gaps = EmptyDict
    /\ duplicates = EmptyDict
    /\ strict = FALSE
    /\ exit_code = NoExit
    /\ o_pc = "idle"
    /\ o_store = EmptyDict
    /\ o_issues = <<>>
    /\ orphans = <<>>
    /\ x_pc = "read"
    /\ x_text \in Texts
    /\ x_fn = ""
    /\ x_name = ""
    /\ x_artifacts = <<>>
    /\ x_links = EmptyDict
    /\ x_refs = <<>>
    /\ x_report = NoReport
    /\ a_pc = "idle"
    /\ a_issue = NoIssue
    /\ a_remote = <<>>
    /\ fix_auto = FALSE
    /\ dry_run = FALSE
    /\ all_problems = <<>>
    /\ fixable = <<>>
    /\ a_idx = 1
    /\ a_requests = <<>>
    /\ fixed_count = 0

\* audit-issue-labels.py on one issue of the remote store, with any flags.
InitAudit ==
    /\ p_pc = "idle"
    /\ all_items = <<>>
    /\ p_idx = 1
    /\ seen = EmptyDict
    /\ dedup = <<>>
    /\ duplicate_definition_ids = <<>>
    /\ out_items = <<>>
    /\ out_duplicateDefinitionIds = <<>>
    /\ blob_text = NoText
    /\ blobs_read = <<>>
    /\ warnings = <<>>
    /\ i_pc = "idle"
    /\ store = EmptyDict
    /\ label_idx = 1
    /\ all_issues = <<>>
    /\ seen_numbers = {}
    /\ title_detection = FALSE
    /\ issue_types = EmptyDict
    /\ i_idx = 1
    /\ body_read = <<>>
    /\ items = <<>>
    /\ forward_links = EmptyDict
    /\ backward_links = EmptyDict
    /\ requirements = <<>>
    /\ requirements_with_adr = {}
    /\ requirements_with_scenario = {}
    /\ requirements_with_test = {}
    /\ requirements_with_any_link = {}
    /\ i_metrics = EmptyDict
    /\ m_pc = "idle"
    /\ m_dir = 1
    /\ n_files = 0
    /\ artifacts = [c \in Collections |-> <<>>]
    /\ links = EmptyDict
    /\ m_metrics = EmptyDict
    /\ n_pc = "idle"
    /\ n_scanned = 0
    /\ id_locations = EmptyDict
    /\ by_type = EmptyDict
    /\ gaps = EmptyDict
    /\ duplicates = EmptyDict
    /\ strict = FALSE
    /\ exit_code = NoExit
    /\ o_pc = "idle"
    /\ o_store = EmptyDict
    /\ o_issues = <<>>
    /\ orphans = <<>>
    /\ x_pc = "idle"
    /\ x_text = <<>>
    /\ x_fn = ""
    /\ x_name = ""
    /\ x_artifacts = <<>>
    /\ x_links = EmptyDict
    /\ x_refs = <<>>
    /\ x_report = NoReport
    /\ a_pc = "validate"
    /\ a_issue \in AuditIssues
    /\ a_remote = a_issue.labels
    /\ fix_auto \in BOOLEAN
    /\ dry_run \in BOOLEAN
    /\ all_problems = <<>>
    /\ fixable = <<>>
    /\ a_idx = 1
    /\ a_requests = <<>>
    /\ fixed_count = 0

SpecParser == InitParser /\ [][NextParser]_vars

SpecIssues == InitIssues /\ [][NextIssues]_vars

SpecMarkdown == InitMarkdown /\ [][NextMarkdown]_vars

NextMetrics == NextIssues \/ NextMarkdown
SpecMetrics == InitMetrics /\ [][NextMetrics]_vars

SpecNumbering == InitNumbering /\ [][NextNumbering]_vars

SpecOrphans == InitOrphans /\ [][NextOrphans]_vars

SpecScanner == InitScanner /\ [][NextScanner]_vars

SpecExtract == InitExtract /\ [][NextExtract]_vars

SpecAudit == InitAudit /\ [][NextAudit]_vars

----------------------------------------------------------------------------
(* Properties of spec_parser.py (SpecParser).                              *)

NoDuplicates(list) == \A a, b \in 1..Len(list) : a # b => list[a] # list[b]
Min(S) == CHOOSE x \in S : \A y \in S : x <= y

\* Positions in scan order of the definition occurrences of an identifier.
DefinitionPositions(id) ==
    {k \in 1..Len(all_items) :
        all_items[k].id = id /\ all_items[k].sourceType = "definition"}
\* Positions in the output `items` of the items for an identifier.
KeptPositions(id) == {k \in 1..Len(out_items) : out_items[k].id = id}
\* Positions of an identifier in the output `duplicateDefinitionIds`.
ListedPositions(id) ==
    {k \in 1..Len(out_duplicateDefinitionIds) : out_duplicateDefinitionIds[k] = id}

\* C1: when an identifier has several definition occurrences, the written `items`
\* holds exactly one item for it, and that item is the first definition in scan
\* order. (The code keeps the first occurrence, which may be a reference.)
C1_FirstDefinitionWins ==
    p_pc = "done" =>
        \A id \in SpecIds :
            Cardinality(DefinitionPositions(id)) >= 2 =>
                /\ Cardinality(KeptPositions(id)) = 1
                /\ \A k \in KeptPositions(id) :
                      out_items[k] = all_items[Min(DefinitionPositions(id))]

\* C2: an identifier with k >= 2 definition occurrences, wherever they are in the
\* scan, is listed exactly once in duplicateDefinitionIds with recorded count k;
\* one with fewer than two definitions is not listed.
C2_DuplicateDefinitionsCounted ==
    p_pc = "done" =>
        \A id \in SpecIds :
            LET k == Cardinality(DefinitionPositions(id))
            IN IF k >= 2
               THEN /\ Cardinality(ListedPositions(id)) = 1
                    /\ OGet(duplicate_definition_ids, id, 0) = k
               ELSE ListedPositions(id) = {}

\* C3: when an identifier has a definition occurrence, the item kept for it in
\* `items` is a definition, the first one in scan order, also when a reference to
\* it was scanned earlier.
C3_ReferencesNeverShadowDefinitions ==
    p_pc = "done" =>
        \A id \in SpecIds :
            DefinitionPositions(id) # {} =>
                \A k \in KeptPositions(id) :
                    /\ out_items[k].sourceType = "definition"
                    /\ out_items[k] = all_items[Min(DefinitionPositions(id))]

----------------------------------------------------------------------------
(* Properties of the issue path (SpecIssues).                              *)

ForwardOf(a) == Range(DictGet(forward_links, a, <<>>))
BackwardOf(b) == Range(DictGet(backward_links, b, <<>>))

\* C4: forward_links and backward_links are mutual inverses: A is in
\* backward_links[B] exactly when B is in forward_links[A], and no backward_links
\* entry lists an identifier twice.
C4_LinksMutualInverses ==
    /\ \A a \in RefNumbers, b \in RefNumbers : a \in BackwardOf(b) <=> b \in ForwardOf(a)
    /\ \A b \in DOMAIN backward_links : NoDuplicates(backward_links[b])

\* Two issues that carry several of the fetched labels reference each other, one
\* of them mentioning the other twice and itself as well; all is processed.
C4_Witness ==
    /\ i_pc = "done"
    /\ Len(all_issues) = 2
    /\ \E n \in DOMAIN store : Len(store[n].labels) = 2
    /\ \E b \in DOMAIN backward_links : Len(backward_links[b]) = 2
    /\ \E a \in DOMAIN forward_links : a \in ForwardOf(a)
    /\ Len(FindAllRefs(body_read)) = 2 /\ ~NoDuplicates(FindAllRefs(body_read))

----------------------------------------------------------------------------
(* Properties of the link structures and the metrics of both builders.     *)

MdCollections == {"stakeholder_requirements", "functional_requirements",
                  "non_functional_requirements", "architecture_decisions",
                  "architecture_components"}

\* The targets of the outgoing links of a markdown artifact, of any relation.
MdTargets(req) ==
    Range(req.traces_to) \cup Range(req.verified_by) \cup Range(req.implements)
    \cup Range(req.satisfies) \cup Range(req.refined_by)

\* Number of requirement artifacts of the markdown path that satisfy Test.
MdCount(Test(_)) == Cardinality({k \in 1..Len(all_reqs) : Test(all_reqs[k])})

\* The requirement issues of the issue path: the fetched issues typed REQ-F/REQ-NF.
RequirementIssues == {n \in Range(all_issues) : IsRequirementType(TypeOf(n))}

\* C5: every link structure the builders output is free of repeated edges: each
\* artifact's per-relation list, every list of the global `links` map, and every
\* forward_links entry.
C5_EdgesDeduplicated ==
    /\ \A c \in MdCollections : \A k \in 1..Len(artifacts[c]) :
          /\ NoDuplicates(artifacts[c][k].traces_to)
          /\ NoDuplicates(artifacts[c][k].verified_by)
          /\ NoDuplicates(artifacts[c][k].implements)
          /\ NoDuplicates(artifacts[c][k].satisfies)
          /\ NoDuplicates(artifacts[c][k].refined_by)
    /\ \A id \in DOMAIN links : \A rel \in DOMAIN links[id] : NoDuplicates(links[id][rel])
    /\ \A a \in DOMAIN forward_links : NoDuplicates(forward_links[a])

\* C6: with no REQ-F/REQ-NF artifact, the metrics hold all four entries, each with
\* coverage_pct 0, in the markdown path and in the issue path.
C6_EmptyInputMetrics ==
    /\ (m_pc = "done" /\ total_requirements = 0) =>
          /\ DOMAIN m_metrics = MetricNames
          /\ \A m \in MetricNames : m_metrics[m].coverage_pct = 0
    /\ (i_pc = "done" /\ RequirementIssues = {}) =>
          /\ DOMAIN i_metrics = MetricNames
          /\ \A m \in MetricNames : i_metrics[m].coverage_pct = 0

\* C7: the `requirement` numerator counts a requirement exactly when its set of
\* outgoing links is non-empty, and the denominator is the number of REQ-F/REQ-NF
\* artifacts.
C7_RequirementCoverage ==
    /\ (m_pc = "done" /\ total_requirements > 0) =>
          m_metrics["requirement"].coverage_pct =
              MdPct(MdCount(LAMBDA req : MdTargets(req) # {}),
                    Len(artifacts["functional_requirements"])
                    + Len(artifacts["non_functional_requirements"]))
    /\ i_pc = "done" =>
          /\ i_metrics["requirement"].total = Cardinality(RequirementIssues)
          /\ i_metrics["requirement"].linked =
                Cardinality({n \in RequirementIssues : ForwardOf(n) # {}})
          /\ RequirementIssues # {} =>
                i_metrics["requirement"].coverage_pct =
                    IssuePct(Cardinality({n \in RequirementIssues : ForwardOf(n) # {}}),
                             Cardinality(RequirementIssues))

\* Two requirement files were scanned, one without any link and one whose only
\* link is a refined_by link; the metrics were calculated.
C7_Witness ==
    /\ m_pc = "done"
    /\ Len(all_reqs) = 2
    /\ \E k \in 1..2 : MdTargets(all_reqs[k]) = {}
    /\ \E k \in 1..2 :
          all_reqs[k].refined_by # <<>> /\ Cardinality(MdTargets(all_reqs[k])) = 1
    /\ m_metrics["requirement"].coverage_pct = 5000

\* The markdown builder does not know what kind of issue a '#N' target is: the
\* claims about target types are stated for every typing of the mentioned issues.
MdTypings == [MdRefs -> {"ADR", "ARC-C", "QA-SC", "TEST", "UNKNOWN"}]

\* The edges of an issue by relation, as the item lists them in link_details.
IssueEdges(n, rel) ==
    UNION {Range(DictGet(items[k].link_details, rel, <<>>)) :
              k \in {j \in 1..Len(items) : items[j].id = n}}

\* Fetched issues of one of the types that have an edge to issue n.
IncomingFrom(n, types) ==
    {a \in Range(all_issues) : TypeOf(a) \in types /\ n \in ForwardOf(a)}

\* C8 as stated: a requirement counts toward requirement_to_ADR exactly when it has
\* an outgoing edge, of any relation, to an artifact of type ADR or ARC-C.
C8_AdrByOutgoingEdgeOnly ==
    /\ (m_pc = "done" /\ total_requirements > 0) =>
          \A typing \in MdTypings :
              m_metrics["requirement_to_ADR"].coverage_pct =
                  MdPct(MdCount(LAMBDA req : \E t \in MdTargets(req) :
                                                typing[t] \in {"ADR", "ARC-C"}),
                        total_requirements)
    /\ i_pc = "done" =>
          \A n \in RequirementIssues :
              n \in requirements_with_adr
                  <=> \E r \in ForwardOf(n) : TypeOf(r) \in {"ADR", "ARC-C"}

\* C8, amended: in the issue path a requirement counts toward requirement_to_ADR
\* exactly when it has an edge to a fetched issue of type ADR or ARC-C or a fetched
\* issue of type ADR or ARC-C has an edge to it; in the markdown path exactly when
\* its implements or satisfies list is not empty.
C8_AdrCoverage ==
    /\ (m_pc = "done" /\ total_requirements > 0) =>
          m_metrics["requirement_to_ADR"].coverage_pct =
              MdPct(MdCount(LAMBDA req : Range(req.implements) \cup Range(req.satisfies) # {}),
                    total_requirements)
    /\ i_pc = "done" =>
          /\ requirements_with_adr =
                {n \in RequirementIssues :
                    \/ \E r \in ForwardOf(n) : TypeOf(r) \in {"ADR", "ARC-C"}
                    \/ IncomingFrom(n, {"ADR", "ARC-C"}) # {}}
          /\ RequirementIssues # {} =>
                i_metrics["requirement_to_ADR"].linked = Cardinality(requirements_with_adr)

\* A requirement without any outgoing edge is counted because an ADR or ARC-C
\* issue links to it.
C8_Witness ==
    /\ i_pc = "done"
    /\ \E n \in RequirementIssues :
          /\ ForwardOf(n) = {}
          /\ IncomingFrom(n, {"ADR", "ARC-C"}) # {}
          /\ n \in requirements_with_adr
          /\ i_metrics["requirement_to_ADR"].linked = 1

\* C9: a requirement counts toward requirement_to_scenario exactly when it has an
\* edge to an artifact of type QA-SC; one with edges only to artifacts of other
\* types is not counted.
C9_ScenarioByQaScEdge ==
    /\ (m_pc = "done" /\ total_requirements > 0) =>
          \A typing \in MdTypings :
              m_metrics["requirement_to_scenario"].coverage_pct =
                  MdPct(MdCount(LAMBDA req : \E t \in MdTargets(req) : typing[t] = "QA-SC"),
                        total_requirements)
    /\ i_pc = "done" =>
          \A n \in RequirementIssues :
              n \in requirements_with_scenario
                  <=> \E r \in ForwardOf(n) : TypeOf(r) = "QA-SC"

\* C10 as stated: a requirement counts toward requirement_to_test exactly when it
\* has a verified_by edge to a TEST artifact or a TEST artifact has a verified_by
\* edge to it.
C10_TestByVerifiedByEdge ==
    /\ (m_pc = "done" /\ total_requirements > 0) =>
          \A typing \in MdTypings :
              m_metrics["requirement_to_test"].coverage_pct =
                  MdPct(MdCount(LAMBDA req : \E t \in Range(req.verified_by) :
                                                typing[t] = "TEST"),
                        total_requirements)
    /\ i_pc = "done" =>
          \A n \in RequirementIssues :
              n \in requirements_with_test
                  <=> \/ \E r \in IssueEdges(n, "verified_by") : TypeOf(r) = "TEST"
                      \/ \E a \in Range(all_issues) :
                            TypeOf(a) = "TEST" /\ n \in IssueEdges(a, "verified_by")

\* C10, amended: in the issue path, where every edge is a traces_to edge, a
\* requirement counts toward requirement_to_test exactly when it has an edge to a
\* fetched TEST issue or a fetched TEST issue has an edge to it; in the markdown
\* path exactly when its verified_by list is not empty. A requirement with no
\* outgoing edge and no incoming edge from a TEST artifact is not counted.
C10_TestCoverage ==
    /\ (m_pc = "done" /\ total_requirements > 0) =>
          m_metrics["requirement_to_test"].coverage_pct =
              MdPct(MdCount(LAMBDA req : Range(req.verified_by) # {}), total_requirements)
    /\ i_pc = "done" =>
          /\ \A n \in Range(all_issues) : IssueEdges(n, "verified_by") = {}
          /\ requirements_with_test =
                {n \in RequirementIssues :
                    \/ \E r \in IssueEdges(n, "traces_to") : TypeOf(r) = "TEST"
                    \/ \E a \in Range(all_issues) :
                          TypeOf(a) = "TEST" /\ n \in IssueEdges(a, "traces_to")}
          /\ RequirementIssues # {} =>
                i_metrics["requirement_to_test"].linked = Cardinality(requirements_with_test)
          /\ \A n \in RequirementIssues :
                (ForwardOf(n) = {} /\ IncomingFrom(n, {"TEST"}) = {})
                    => n \notin requirements_with_test

\* A requirement with no outgoing edge is counted because a TEST issue has an
\* edge to it.
C10_Witness ==
    /\ i_pc = "done"
    /\ \E n \in RequirementIssues :
          /\ ForwardOf(n) = {}
          /\ IncomingFrom(n, {"TEST"}) # {}
          /\ n \in requirements_with_test

----------------------------------------------------------------------------
(* Properties of check-spec-numbering.py (SpecNumbering).                  *)

\* The numbers observed for a type+category group, from the ids found.
ObservedNumbers(prefix, category, type) ==
    {IntOf(id.num) : id \in {x \in DOMAIN id_locations :
                        x.prefix = prefix /\ x.category = category /\ x.type = type}}

\* The gaps reported for a group; a group without an entry has none reported.
ReportedGaps(prefix, category, type) == DictGet(gaps, <<prefix, category, type>>, <<>>)

Ascending(list) == \A a, b \in 1..Len(list) : a < b => list[a] < list[b]

\* C11: for each type+category group the reported gaps are exactly the integers
\* between the smallest and the largest observed number that were not observed,
\* in ascending order; the numbers of other groups play no part, and a group
\* with a single number has no gaps.
C11_GapsPerGroup ==
    n_pc = "done" =>
        /\ \A id \in NumberedIds :
              LET S == ObservedNumbers(id.prefix, id.category, id.type)
                  G == ReportedGaps(id.prefix, id.category, id.type)
              IN /\ \A n \in 0..(Cardinality(NumberTexts) + 1) :
                        n \in Range(G) <=>
                            (n \notin S /\ \E lo, hi \in S : lo < n /\ n < hi)
                 /\ Ascending(G)
                 /\ Cardinality(S) = 1 => G = <<>>
        /\ \A key \in DOMAIN gaps :
              \E id \in DOMAIN id_locations :
                  key = <<id.prefix, id.category, id.type>>

\* REQ-F numbers {1,2,4} were observed, and number 3 in the REQ-AUTH-F group
\* only: the gap [3] is reported for REQ-F.
C11_Witness ==
    /\ n_pc = "done"
    /\ ObservedNumbers("REQ", "", "F") = {1, 2, 4}
    /\ ObservedNumbers("REQ", "AUTH-", "F") = {3}
    /\ ReportedGaps("REQ", "", "F") = <<3>>
    /\ ReportedGaps("REQ", "AUTH-", "F") = <<>>

----------------------------------------------------------------------------
(* Properties of the orphan reports (SpecOrphans).                         *)

\* The type of an issue of the store, from its title prefix or its labels.
OrphanTypeOf(n) == report_get_requirement_type(o_store[n].title, o_store[n].labels)

\* The targets of the outgoing edges of an issue, of any relation.
OutgoingEdges(n) ==
    Range(extract_links(o_store[n].body).traces_to)
    \cup Range(extract_links(o_store[n].body).verified_by)

\* C12: an issue is reported as an orphan exactly when its type is not StR and it
\* has no outgoing edge of any relation; an StR issue is never reported, whatever
\* its labels or links.
C12_OrphanIffNoEdges ==
    o_pc \in {"report_done", "check_done"} =>
        /\ \A n \in Range(o_issues) :
              n \in Range(orphans) <=> (OrphanTypeOf(n) # "StR" /\ OutgoingEdges(n) = {})
        /\ \A n \in DOMAIN o_store : OrphanTypeOf(n) = "StR" => n \notin Range(orphans)

----------------------------------------------------------------------------
(* Order of the input files (SpecParser).                                  *)

\* Lexicographic order of source paths.
PathBefore(a, b) == a.dir < b.dir \/ (a.dir = b.dir /\ a.name < b.name)

\* The scanned items in lexicographic order of their source paths, the items of
\* one file in the order parse_file returned them.
RECURSIVE SortedByPath(_)
SortedByPath(list) ==
    IF list = <<>> THEN <<>>
    ELSE LET paths == {list[k].path : k \in 1..Len(list)}
             first == CHOOSE p \in paths : \A q \in paths : p = q \/ PathBefore(p, q)
         IN SelectSeq(list, LAMBDA it : it.path = first)
            \o SortedByPath(SelectSeq(list, LAMBDA it : it.path # first))

\* C20: whatever the order in which the files were enumerated, the written items
\* and duplicateDefinitionIds are those of a run that processes the same files in
\* lexicographic order of their source paths (stated for the runs in which every
\* occurrence is a definition, the case of an identifier defined in several files).
C20_OrderIndependent ==
    (/\ p_pc = "done"
     /\ \A k \in 1..Len(all_items) : all_items[k].sourceType = "definition") =>
        LET sorted_run == DedupRun(SortedByPath(all_items), EmptyDict, <<>>, <<>>)
        IN /\ Range(out_items) = Range(sorted_run.dedup)
           /\ Range(out_duplicateDefinitionIds)
                 = Range(OKeys(sorted_run.duplicate_definition_ids))

----------------------------------------------------------------------------
(* Properties of parse_file on one text (SpecScanner).                     *)

\* The occurrences main took from the text parse_file read last.
Emitted == SelectSeq(all_items, LAMBDA it : it.path = blob_text.path)

EmittedAs(id_, source_type) ==
    \E k \in 1..Len(Emitted) :
        Emitted[k].id = id_ /\ Emitted[k].sourceType = source_type

\* The id field the front matter of the text gives, "" when it gives none.
FrontId(front) ==
    IF front.form = "closed" /\ front.colon THEN front.id ELSE ""

\* The ids that begin a heading of the text.
HeadingIds(lines) ==
    {lines[k].tokens[1] : k \in {j \in 1..Len(lines) : HeadingMatches(lines[j])}}

\* The ids that occur anywhere in the lines of the text.
MentionedIds(lines) ==
    UNION {Range(lines[k].tokens) \cap SpecIds : k \in 1..Len(lines)}

\* C13: for one text, parse_file emits at most one occurrence per identifier;
\* the front-matter id and every id that begins a heading are emitted as
\* definitions, and an identifier emitted as a definition is not also emitted
\* as a reference.
C13_OneOccurrencePerId ==
    blob_text # NoText =>
        /\ \A a, b \in 1..Len(Emitted) : Emitted[a].id = Emitted[b].id => a = b
        /\ FrontId(blob_text.front) # "" =>
               EmittedAs(FrontId(blob_text.front), "definition")
        /\ \A id_ \in HeadingIds(blob_text.lines) : EmittedAs(id_, "definition")
        /\ \A id_ \in SpecIds :
               ~(EmittedAs(id_, "definition") /\ EmittedAs(id_, "reference"))

\* The front matter and a heading of one text define the same id, and a line
\* that begins with an id mentions it again next to another id.
C13_Witness ==
    /\ FrontId(blob_text.front) = "ADR-003"
    /\ "ADR-003" \in HeadingIds(blob_text.lines)
    /\ \E k \in 1..Len(blob_text.lines) :
          blob_text.lines[k] = Line(FALSE, <<"ADR-003", "TEST-001">>)
    /\ Len(Emitted) = 2
    /\ EmittedAs("ADR-003", "definition")
    /\ EmittedAs("TEST-001", "reference")

\* C14: every identifier that occurs in a text and is not classified as a
\* definition is emitted as a reference, wherever in the text it occurs (at the
\* start of a line or within a line).
C14_EveryMentionEmitted ==
    blob_text # NoText =>
        \A id_ \in MentionedIds(blob_text.lines) :
            EmittedAs(id_, "definition") \/ EmittedAs(id_, "reference")

\* What the code does instead: the identifiers of the lines that begin with an
\* identifier are emitted, those of the other lines only when they are defined
\* or begin a line elsewhere.
LineStartIds(lines) ==
    UNION {Range(lines[k].tokens) \cap SpecIds :
             k \in {j \in 1..Len(lines) : lines[j].tokens[1] \in SpecIds}}

C14_LineStartMentionsEmitted ==
    blob_text # NoText =>
        {Emitted[k].id : k \in 1..Len(Emitted)}
            = LineStartIds(blob_text.lines) \cup HeadingIds(blob_text.lines)
                \cup ({FrontId(blob_text.front)} \ {""})

ParseFileShape ==
    blob_text # NoText =>
        (Emitted = <<>> \/ Emitted \in ParseResults(blob_text.path))

----------------------------------------------------------------------------
(* Properties of the link extractors (SpecExtract).                        *)

\* The numbers of all '#' tokens of a text.
RefNumbersOf(text) ==
    {RefNumber(text[k]) : k \in {j \in 1..Len(text) : HasRef(text[j])}}

\* The positions of the traces_to keywords of a text, in whatever form written.
TracesToPositions(text) ==
    {k \in 1..Len(text) : text[k].kind = "keyword" /\ text[k].rel = "traces_to"}

\* The '#' token at position j follows the keyword at position i on its line.
FollowsOnLine(text, i, j) ==
    /\ i < j
    /\ HasRef(text[j])
    /\ \A k \in i..j : text[k].kind \notin {"newline", "heading_id"}

\* The artifact scan_markdown built, when it built one.
MdBuilt == x_fn = "scan_markdown" /\ x_artifacts # <<>>

\* The traces_to edges self.links holds for the artifact.
LinkedTracesTo ==
    DictGet(DictGet(x_links, x_artifacts[1].id, EmptyDict), "traces_to", <<>>)

\* C16: in the markdown path a '#' token yields an edge only when it follows a
\* relation keyword, a bare token elsewhere yields none: a text with one
\* 'Traces to: #5' and an unrelated bare '#5' yields exactly one traces_to edge.
C16_EdgeOnlyAfterKeyword ==
    MdBuilt =>
        /\ \A n \in Range(x_artifacts[1].traces_to) :
              \E i \in TracesToPositions(x_text), j \in 1..Len(x_text) :
                  FollowsOnLine(x_text, i, j) /\ RefNumber(x_text[j]) = n
        /\ (\E i \in 1..Len(x_text) - 1 :
               /\ TracesToPositions(x_text) = {i}
               /\ x_text[i] = Keyword("traces_to", "Title", FALSE, TRUE)
               /\ x_text[i + 1] = RefToken("5")
               /\ \E j \in 1..Len(x_text) : j # i + 1 /\ x_text[j] = RefToken("5")) =>
              /\ x_artifacts[1].traces_to = <<5>>
              /\ LinkedTracesTo = <<5>>

\* The same for the keyword written '**Traces to**:', which the patterns of the
\* markdown path accept.
C16_EdgeOnlyAfterBoldKeyword ==
    MdBuilt =>
        /\ \A n \in Range(x_artifacts[1].traces_to) :
              \E i \in TracesToPositions(x_text), j \in 1..Len(x_text) :
                  FollowsOnLine(x_text, i, j) /\ RefNumber(x_text[j]) = n
        /\ (\E i \in 1..Len(x_text) - 1 :
               /\ TracesToPositions(x_text) = {i}
               /\ x_text[i] = Keyword("traces_to", "Title", TRUE, TRUE)
               /\ x_text[i + 1] = RefToken("5")
               /\ \E j \in 1..Len(x_text) : j # i + 1 /\ x_text[j] = RefToken("5")) =>
              /\ x_artifacts[1].traces_to = <<5>>
              /\ LinkedTracesTo = <<5>>

\* C17: extract_issue_links (and extract_all_refs) returns exactly the distinct
\* numbers of the '#<number>' tokens of the body, wherever they stand and with
\* no keyword, each once and in ascending order; an empty body gives [].
C17_AllRefsAscending ==
    x_fn \in {"extract_issue_links", "extract_all_refs"} =>
        /\ Range(x_refs) = RefNumbersOf(x_text)
        /\ \A a, b \in 1..Len(x_refs) : a < b => x_refs[a] < x_refs[b]
        /\ x_text = <<>> => x_refs = <<>>

\* '#7 #05 #5' without any keyword: 5 once, ahead of 7.
C17_Witness ==
    /\ x_fn = "extract_issue_links"
    /\ x_text = <<RefToken("7"), RefToken("05"), RefToken("5")>>
    /\ x_refs = <<5, 7>>

\* The numbers that directly follow a traces_to keyword of the given forms.
KeywordRefs(text, forms) ==
    {RefNumber(text[k + 1]) :
        k \in {j \in 1..Len(text) - 1 : text[j] \in forms /\ text[j + 1].kind = "ref"}}

\* The traces_to numbers an extractor of keyword-bound links gave.
ExtractedTracesTo ==
    CASE x_fn = "scan_markdown" -> Range(x_artifacts[1].traces_to)
      [] x_fn = "extract_links" -> Range(x_report.traces_to)
      [] x_fn = "extract_parent_links" -> Range(x_refs)

KeywordExtractorRan ==
    MdBuilt \/ x_fn \in {"extract_links", "extract_parent_links"}

\* C18: a relation keyword followed by a '#' token is extracted as an edge of
\* that relation in every combination of letter case, bold markup or none, and
\* colon or none.
C18_EveryKeywordForm ==
    KeywordExtractorRan => KeywordRefs(x_text, TracesToKeywords) \subseteq ExtractedTracesTo

\* What the code does instead: the markdown path takes the bold keyword with a
\* colon in any letter case, the issue scripts the plain keyword in lower case
\* with or without a capital first letter, with or without a colon.
C18_FormsEachPathTakes ==
    /\ MdBuilt =>
          KeywordRefs(x_text, {t \in TracesToKeywords : t.bold /\ t.colon})
              \subseteq ExtractedTracesTo
    /\ x_fn \in {"extract_links", "extract_parent_links"} =>
          KeywordRefs(x_text, {t \in TracesToKeywords :
                                  ~t.bold /\ t.letter_case \in {"Title", "lower"}})
              \subseteq ExtractedTracesTo

\* The ids a text defines (its headings) or its file carries in its name.
BlobDefinedIds ==
    {x_text[k].id : k \in {j \in 1..Len(x_text) : x_text[j].kind = "heading_id"}}
        \cup ({x_name} \ {""})

\* The ids the extracted edges are attributed to.
EdgeSources ==
    CASE x_fn = "scan_markdown" ->
            {x_artifacts[k].id :
                k \in {j \in 1..Len(x_artifacts) :
                         \E rel \in Range(MdRelations) : x_artifacts[j][rel] # <<>>}}
              \cup DOMAIN x_links
      [] x_fn = "scan_test_file" -> {x_artifacts[k].id : k \in 1..Len(x_artifacts)}
      [] OTHER -> {}

\* C19: the source of every extracted edge is an identifier the text defines: a
\* text that defines none gives no edges, and no edge is attributed to an
\* identifier the text only mentions or to an identifier made of the file name.
C19_EdgeSourceDefined ==
    x_pc = "done" => EdgeSources \subseteq BlobDefinedIds

\* What the code does instead: scan_markdown attributes the edges to the id of
\* the file name or else to the first id in the first 500 characters, defined or
\* only mentioned there; scan_test_file attributes them to TEST-<stem>.
C19_SourceTheCodeTakes ==
    /\ x_fn = "scan_markdown" =>
          EdgeSources \subseteq {ArtifactId(x_name, x_text)}
    /\ x_fn = "scan_test_file" => EdgeSources \subseteq {TestFileId}

----------------------------------------------------------------------------
(* Properties of get_requirement_type (SpecIssues).                        *)

\* The seven type prefixes as they are spelled.
TypePrefixSet == {"StR", "REQ-F", "REQ-NF", "ADR", "ARC-C", "QA-SC", "TEST"}

\* The prefix of the seven that a title starts with, whatever its letter case.
PrefixOfTitle(title) ==
    CASE title = "req-nf" -> "REQ-NF"
      [] OTHER -> title

\* C21: get_requirement_type returns one of the seven type prefixes, spelled
\* exactly StR, REQ-F, REQ-NF, ADR, ARC-C, QA-SC, TEST, or UNKNOWN; the title
\* prefix comes before the labels, and an issue whose title starts with one of
\* the prefixes gets exactly that prefix as its type.
C21_TypeIsPrefixOrUnknown ==
    \A n \in DOMAIN issue_types :
        /\ issue_types[n] \in TypePrefixSet \cup {"UNKNOWN"}
        /\ store[n].title # "" => issue_types[n] = PrefixOfTitle(store[n].title)

\* The same without the StR titles, which str.upper() turns into 'STR'.
C21_ExceptStRTitles ==
    \A n \in DOMAIN issue_types :
        store[n].title # "StR" =>
            /\ issue_types[n] \in TypePrefixSet \cup {"UNKNOWN"}
            /\ store[n].title # "" => issue_types[n] = PrefixOfTitle(store[n].title)

----------------------------------------------------------------------------
(* Bounds of the coverage metrics (SpecMetrics).                           *)

\* C22: every coverage percentage of either metric calculator lies in [0, 100]
\* (0..10000 hundredths): for each of the four metrics the number of counted
\* requirements never exceeds the number of requirement artifacts.
C22_PercentagesInRange ==
    /\ m_pc = "done" =>
          \A m \in DOMAIN m_metrics :
              /\ m_metrics[m].coverage_pct \in 0..10000
              /\ CountLinked(all_reqs, m) <= total_requirements
    /\ i_pc = "done" =>
          \A m \in DOMAIN i_metrics :
              /\ i_metrics[m].coverage_pct \in 0..10000
              /\ i_metrics[m].linked <= i_metrics[m].total
              /\ i_metrics[m].total = Len(requirements)

\* The one requirement issue is counted for requirement_to_ADR through the link
\* an ADR issue holds to it, and it links to itself: 100 percent, not more.
C22_Witness ==
    /\ i_pc = "done"
    /\ Len(requirements) = 1
    /\ requirements[1] \in ForwardOf(requirements[1])
    /\ i_metrics["requirement_to_ADR"].coverage_pct = 10000
    /\ \E n \in requirements_with_adr : ~LinksToType(ForwardOf(n), {"ADR", "ARC-C"})

----------------------------------------------------------------------------
(* Lists of references in issue bodies (SpecExtract).                      *)

\* The numbers of the comma-separated list that starts at position j: the '#'
\* token there and the ', #' tokens that follow it directly.
RECURSIVE ListFrom(_, _)
ListFrom(text, j) ==
    IF j > Len(text) \/ text[j].kind # "list_ref" THEN <<>>
    ELSE <<RefNumber(text[j])>> \o ListFrom(text, j + 1)

\* C23: for a body in which a relation keyword is followed by a comma-separated
\* list of issue references ('Traces to: #5, #7'), extract_links returns every
\* number of the list under that relation, in the order of appearance.
C23_ListAfterKeyword ==
    x_fn = "extract_links" =>
        \A i \in 1..Len(x_text) - 1 :
            (/\ TracesToPositions(x_text) = {i}
             /\ PlainKeywordMatches(x_text[i], "traces_to")
             /\ x_text[i + 1].kind = "ref") =>
                x_report.traces_to
                    = <<RefNumber(x_text[i + 1])>> \o ListFrom(x_text, i + 2)

\* What the code does instead: only the first number of the list is returned.
C23_FirstOfListOnly ==
    x_fn = "extract_links" =>
        \A i \in 1..Len(x_text) - 1 :
            (/\ TracesToPositions(x_text) = {i}
             /\ PlainKeywordMatches(x_text[i], "traces_to")
             /\ x_text[i + 1].kind = "ref") =>
                x_report.traces_to = <<RefNumber(x_text[i + 1])>>

----------------------------------------------------------------------------
(* Exit code and duplicates of check-spec-numbering.py (SpecNumbering).    *)

\* C24: check-spec-numbering exits with 1 whenever a duplicate id is reported;
\* with gaps only it exits with 0 without --strict and with 1 with --strict;
\* with neither duplicates nor gaps it exits with 0.
C24_ExitCode ==
    n_pc = "exit" =>
        /\ DOMAIN duplicates # {} => exit_code = 1
        /\ (DOMAIN duplicates = {} /\ DOMAIN gaps # {}) =>
              exit_code = (IF strict THEN 1 ELSE 0)
        /\ (DOMAIN duplicates = {} /\ DOMAIN gaps = {}) => exit_code = 0

\* A run without --strict that reports a duplicate and a gap.
C24_Witness ==
    /\ n_pc = "exit"
    /\ ~strict
    /\ DOMAIN duplicates # {}
    /\ DOMAIN gaps # {}
    /\ exit_code = 1

\* The files an id was found in.
FilesOf(id) == Range(DictGet(id_locations, id, <<>>))

\* C26: analyze_numbering reports an id as a duplicate exactly when it occurs in
\* two or more distinct files, and the location list reported for it ('appears
\* in N files') has one entry per distinct file that contains the id.
C26_DuplicateAcrossFiles ==
    n_pc \in {"done", "exit"} =>
        /\ \A id \in DOMAIN id_locations :
              id \in DOMAIN duplicates <=> Cardinality(FilesOf(id)) >= 2
        /\ \A id \in DOMAIN duplicates :
              Len(duplicates[id]) = Cardinality(FilesOf(id))

\* What the code does instead: an id is reported when it was found twice or
\* more, in whatever files, with one location per occurrence.
C26_DuplicateByOccurrence ==
    n_pc \in {"done", "exit"} =>
        /\ \A id \in DOMAIN id_locations :
              id \in DOMAIN duplicates <=> Len(id_locations[id]) >= 2
        /\ \A id \in DOMAIN duplicates : duplicates[id] = id_locations[id]

----------------------------------------------------------------------------
(* Properties of audit-issue-labels.py (SpecAudit).                        *)

\* C25: apply_fixes leaves the labels of the issue in the remote store unchanged
\* (it sends no add-label and no remove-label request) whenever dry_run is true
\* or the problem is not auto-fixable.
C25_NoRequestUnlessFixing ==
    /\ dry_run => (a_remote = a_issue.labels /\ a_requests = <<>>)
    /\ \A k \in 1..Len(all_problems) :
          (dry_run \/ ~all_problems[k].auto_fixable) =>
              /\ apply_fixes(all_problems[k], dry_run, a_remote).remote = a_remote
              /\ apply_fixes(all_problems[k], dry_run, a_remote).requests = <<>>
    /\ \A r \in Range(a_requests) :
          \E k \in 1..Len(all_problems) :
              all_problems[k].auto_fixable /\ r \in Range(FixRequests(all_problems[k]))

\* A dry run over an issue with two fixable problems and one that is not: both
\* are announced as fixed, nothing was sent.
C25_Witness ==
    /\ a_pc = "done"
    /\ dry_run
    /\ fixed_count = 2
    /\ \E k \in 1..Len(all_problems) : ~all_problems[k].auto_fixable
    /\ a_requests = <<>>
    /\ a_remote = a_issue.labels

\* p0 is the highest priority, p3 the lowest.
PriorityRank(l) ==
    CASE l = "priority:p0" -> 0
      [] l = "priority:p1" -> 1
      [] l = "priority:p2" -> 2
      [] l = "priority:p3" -> 3

HighestPriority(labels) ==
    CHOOSE l \in Range(WithPrefix(labels, "priority:")) :
        \A m \in Range(WithPrefix(labels, "priority:")) : PriorityRank(l) <= PriorityRank(m)

HasProblem(problems, rule) == \E k \in 1..Len(problems) : problems[k].rule = rule

\* The fixes were applied for real and the loop is over.
FixesApplied == a_pc = "done" /\ fix_auto /\ ~dry_run

\* C27: when an issue has more than one priority:* label, the 'Multiple Priority
\* Labels' fix leaves exactly one priority label on it, the highest of those it
\* had (p0 over p1 over p2 over p3), in whatever order the labels were listed.
C27_HighestPriorityKept ==
    (FixesApplied /\ HasProblem(all_problems, "Multiple Priority Labels")) =>
        WithPrefix(a_remote, "priority:") = <<HighestPriority(a_issue.labels)>>

\* What the code does instead: the priority label listed first is kept.
C27_FirstPriorityKept ==
    (FixesApplied /\ HasProblem(all_problems, "Multiple Priority Labels")) =>
        WithPrefix(a_remote, "priority:") = <<WithPrefix(a_issue.labels, "priority:")[1]>>

\* C28: auto-fixing introduces no label error: after apply_fixes has run (no dry
\* run) for every auto-fixable problem of an issue, open or closed, the issue
\* carries at most one status:* label, and validating it again reports no
\* 'Multiple Status Labels' error that was absent before.
C28_NoNewStatusError ==
    (FixesApplied /\ ~HasProblem(all_problems, "Multiple Status Labels")) =>
        /\ Len(WithPrefix(a_remote, "status:")) <= 1
        /\ ~HasProblem(validate_issue([a_issue EXCEPT !.labels = a_remote]),
                       "Multiple Status Labels")

\* The same for the issues that are open or carry a status label.
C28_ExceptClosedWithoutStatus ==
    (/\ FixesApplied
     /\ ~HasProblem(all_problems, "Multiple Status Labels")
     /\ ~(a_issue.state = "closed" /\ WithPrefix(a_issue.labels, "status:") = <<>>)) =>
        /\ Len(WithPrefix(a_remote, "status:")) <= 1
        /\ ~HasProblem(validate_issue([a_issue EXCEPT !.labels = a_remote]),
                       "Multiple Status Labels")


----------------------------------------------------------------------------
(* Order of the coverage metrics (SpecMetrics).                            *)

\* C29: in the issue metrics and in the markdown metrics, requirement_to_ADR and
\* requirement_to_scenario never exceed the `requirement` coverage: every
\* requirement counted as linked to an ADR/ARC-C or to a QA-SC is also counted
\* as having at least one link.
C29_AnyLinkCoversAdrAndScenario ==
    /\ m_pc = "done" =>
          /\ \A k \in 1..Len(all_reqs) :
                (has_adr(all_reqs[k]) \/ has_scenario(all_reqs[k])) => has_link(all_reqs[k])
          /\ \A m \in {"requirement_to_ADR", "requirement_to_scenario"} :
                m_metrics[m].coverage_pct <= m_metrics["requirement"].coverage_pct
    /\ i_pc = "done" =>
          /\ requirements_with_adr \subseteq requirements_with_any_link
          /\ requirements_with_scenario \subseteq requirements_with_any_link
          /\ \A m \in {"requirement_to_ADR", "requirement_to_scenario"} \cap DOMAIN i_metrics :
                /\ i_metrics[m].linked <= i_metrics["requirement"].linked
                /\ i_metrics[m].coverage_pct <= i_metrics["requirement"].coverage_pct

\* The same for the markdown metrics alone.
C29_MarkdownOrder ==
    m_pc = "done" =>
        /\ \A k \in 1..Len(all_reqs) :
              (has_adr(all_reqs[k]) \/ has_scenario(all_reqs[k])) => has_link(all_reqs[k])
        /\ \A m \in {"requirement_to_ADR", "requirement_to_scenario"} :
              m_metrics[m].coverage_pct <= m_metrics["requirement"].coverage_pct

\* The same for the issue metrics, counting only what a requirement's own body
\* links to: a requirement whose own links reach an ADR/ARC-C or a QA-SC has
\* references, so it is counted as linked.
C29_ForwardLinkageOrder ==
    i_pc = "done" =>
        \A n \in Range(requirements) :
            LinksToType(ForwardOf(n), {"ADR", "ARC-C", "QA-SC"}) =>
                n \in requirements_with_any_link


----------------------------------------------------------------------------
(* The fetch of the issues (SpecIssues).                                   *)

\* The labels of requirement_labels an issue of the store carries.
FetchedLabelsOf(n) == {l \in Range(store[n].labels) : l \in Range(requirement_labels)}

\* The positions of a list that hold x.
PositionsOf(list, x) == {k \in 1..Len(list) : list[k] = x}
ItemPositionsOf(n) == {k \in 1..Len(items) : items[k].id = n}

\* Every fetched issue is held once, and once processed it has one item, one
\* forward_links entry and at most one place in the requirement list.
FetchedOnce ==
    /\ NoDuplicates(all_issues)
    /\ seen_numbers = Range(all_issues)
    /\ i_pc = "done" =>
          /\ Len(items) = Len(all_issues)
          /\ DOMAIN forward_links = Range(all_issues)
          /\ \A n \in Range(all_issues) :
                /\ Cardinality(ItemPositionsOf(n)) = 1
                /\ Cardinality(PositionsOf(requirements, n)) <= 1
                /\ IsRequirementType(TypeOf(n)) <=> n \in Range(requirements)
          /\ i_metrics["requirement"].total =
                Cardinality({n \in Range(all_issues) : IsRequirementType(TypeOf(n))})

\* A step that starts the title-based fetch starts from an empty all_issues.
FallbackOnlyWhenEmpty ==
    (~title_detection /\ title_detection') => (all_issues = <<>> /\ i_pc = "fetch")

\* C30: an issue returned by several per-label fetches appears exactly once in
\* items, has exactly one forward_links entry and is counted at most once in the
\* requirement total, whatever the fetch order; the title-based fallback fetch
\* runs only when the labelled fetches returned no issue at all.
C30_FetchedOnceFallbackWhenEmpty == []FetchedOnce /\ [][FallbackOnlyWhenEmpty]_vars

\* Two requirement issues that both carry two of the fetched labels were found
\* by the labelled fetches, in the order 2 then 1, and processed: the title-based
\* fetch was not tried, and the requirement total is 2.
C30_Witness ==
    /\ i_pc = "done"
    /\ ~title_detection
    /\ all_issues = <<2, 1>>
    /\ \A n \in Range(all_issues) : Cardinality(FetchedLabelsOf(n)) = 2
    /\ Len(items) = 2
    /\ i_metrics["requirement"].total = 2

====
